---- MODULE Spec2Model ----
(***************************************************************************)
(* Tract-index aggregation and merge pipeline of src/app.py: the two       *)
(* source tables loaded at start-up, the session gate, and the routes      *)
(* /geojson, /generate_index and /generate_residential_index acting on the *)
(* shared Base Geo Table (global_gdf) and the Index Registry               *)
(* (generated_index_columns).  Every request is handled to completion      *)
(* before the next one starts (app.run(threaded=False)).                   *)
(***************************************************************************)
EXTENDS Integers, Sequences, FiniteSets, TLC

VARIABLES
    CORRECT_PASSCODE,           \* the configured secret (APP_PASSCODE): <<p>>, or
                                \* <<>> when the variable is not set
    variant,                    \* the program run: "app" (src/app.py) or
                                \* "app_local" (src/data/app_local.py)
    global_gdf,                 \* Base Geo Table, or the unloaded table (None)
    parquet_df,                 \* Visitation Table as loaded (app) or the Parquet
                                \* file as it is on disk (app_local); None when
                                \* it could not be read
    generated_index_columns,    \* Index Registry: set of column names
    available_geojson_columns,  \* tracked list of column names of global_gdf
    verified_frontend_cols,     \* frontend columns found in the GeoJSON at load
    available_residential_vars_js,  \* catalog names whose _zscore_o column was loaded
    session,                    \* the client's session: [logged_in |-> BOOLEAN]
    req,                        \* the request handled last
    resp,                       \* the response given to it
    ngen,                       \* number of generation requests that stored a column
    threads                     \* the worker threads of a threaded server: for
                                \* each its position in generate_activity_index
                                \* and its local variables

vars == <<CORRECT_PASSCODE, variant, global_gdf, parquet_df, generated_index_columns,
          available_geojson_columns, verified_frontend_cols,
          available_residential_vars_js, session, req, resp, ngen, threads>>

\* what no request handled by itself writes: the configuration, and the
\* positions of the worker threads
config_vars == <<CORRECT_PASSCODE, variant, threads>>

\* what only the generation routes write
data_vars == <<global_gdf, parquet_df, generated_index_columns,
               available_geojson_columns, verified_frontend_cols,
               available_residential_vars_js, ngen>>

-----------------------------------------------------------------------------
(* Bounds *)

\* at most this many generation requests get as far as changing global_gdf
MaxGenerated == 2

-----------------------------------------------------------------------------
(* Sequence helpers *)

RECURSIVE SeqToSet(_)
SeqToSet(s) == IF s = <<>> THEN {} ELSE {Head(s)} \cup SeqToSet(Tail(s))

RECURSIVE SelectSeqBy(_, _)
\* the subsequence of s whose elements are in the set S (list comprehension)
SelectSeqBy(s, S) ==
    IF s = <<>> THEN <<>>
    ELSE IF Head(s) \in S THEN <<Head(s)>> \o SelectSeqBy(Tail(s), S)
         ELSE SelectSeqBy(Tail(s), S)

RECURSIVE RemoveFirst(_, _)
\* list.remove(x): removes the first occurrence of x
RemoveFirst(s, x) ==
    IF s = <<>> THEN <<>>
    ELSE IF Head(s) = x THEN Tail(s)
         ELSE <<Head(s)>> \o RemoveFirst(Tail(s), x)

-----------------------------------------------------------------------------
(* Numbers: a float is a rational n/d in lowest terms, a null (NaN/None),  *)
(* an infinity, or a finite double whose magnitude is beyond the range of  *)
(* a 32-bit float (1e300, say), of which only the sign is kept.            *)

RECURSIVE Gcd(_, _)
Gcd(a, b) == IF b = 0 THEN a ELSE Gcd(b, a % b)

Abs(a) == IF a < 0 THEN -a ELSE a

Num(n, d) ==
    LET g == Gcd(Abs(n), Abs(d))
        s == IF d < 0 THEN -1 ELSE 1
    IN  [k |-> "num", n |-> (s * n) \div g, d |-> (s * d) \div g]

NULL == [k |-> "null", n |-> 0, d |-> 1]
PINF == [k |-> "inf", n |-> 1, d |-> 1]
NINF == [k |-> "inf", n |-> -1, d |-> 1]
BIG(sign) == [k |-> "big", n |-> sign, d |-> 1]

IsNull(v) == v.k = "null"
IsNum(v)  == v.k = "num"
IsInf(v)  == v.k = "inf"
IsBig(v)  == v.k = "big"

Sign(v) == IF v.n > 0 THEN 1 ELSE IF v.n < 0 THEN -1 ELSE 0

\* IEEE product; a null operand gives null (SQL NULL, pandas NaN)
Mul(a, b) ==
    IF IsNull(a) \/ IsNull(b) THEN NULL
    ELSE IF IsInf(a) \/ IsInf(b)
         THEN IF Sign(a) * Sign(b) = 0 THEN NULL      \* inf * 0 = NaN
              ELSE IF Sign(a) * Sign(b) > 0 THEN PINF ELSE NINF
    ELSE IF IsBig(a) /\ IsBig(b)                       \* overflow of the double
         THEN IF Sign(a) * Sign(b) > 0 THEN PINF ELSE NINF
    ELSE IF IsBig(a) \/ IsBig(b)
         THEN IF Sign(a) * Sign(b) = 0 THEN Num(0, 1) ELSE BIG(Sign(a) * Sign(b))
         ELSE Num(a.n * b.n, a.d * b.d)

\* IEEE sum; a null operand gives null
Add(a, b) ==
    IF IsNull(a) \/ IsNull(b) THEN NULL
    ELSE IF IsInf(a) /\ IsInf(b) THEN (IF a = b THEN a ELSE NULL)  \* inf - inf = NaN
    ELSE IF IsInf(a) THEN a
    ELSE IF IsInf(b) THEN b
    ELSE IF IsBig(a) /\ IsBig(b) THEN (IF a = b THEN a ELSE Num(0, 1))
    ELSE IF IsBig(a) THEN a
    ELSE IF IsBig(b) THEN b
    ELSE Num(a.n * b.d + b.n * a.d, a.d * b.d)

\* division by a positive integer count
DivInt(a, m) ==
    IF IsNull(a) THEN NULL
    ELSE IF IsInf(a) \/ IsBig(a) THEN a
    ELSE Num(a.n, a.d * m)

\* multiplication by the literal 100.0
Times100(a) == Mul(a, Num(100, 1))

-----------------------------------------------------------------------------
(* Tract identifiers as they arrive in the source files, and the           *)
(* conversion pd.to_numeric(errors='coerce') -> Int64 -> str -> strip.      *)
(* A string is modelled by its shape s and, when it spells a number, the   *)
(* number n: "d" is the decimal integer, " d " the same with surrounding   *)
(* blanks, "d.0" the float spelling, and "abc" / "<NA>" spell no number.   *)

KInt(n)    == [t |-> "int",   n |-> n, s |-> ""]
KFloat(n)  == [t |-> "float", n |-> n, s |-> ""]     \* n.0
KStr(n)    == [t |-> "str",   n |-> n, s |-> "d"]
KPad(n)    == [t |-> "str",   n |-> n, s |-> " d "]
KStrF(n)   == [t |-> "str",   n |-> n, s |-> "d.0"]
KBad       == [t |-> "str",   n |-> 0, s |-> "abc"]
KNAStr     == [t |-> "str",   n |-> 0, s |-> "<NA>"]
KNull      == [t |-> "null",  n |-> 0, s |-> ""]

NumericShapes == {"d", " d ", "d.0"}

\* pd.to_numeric(errors='coerce') followed by astype(Int64): the integer, or <NA>
ToInt64(key) ==
    IF key.t \in {"int", "float"} THEN [na |-> FALSE, n |-> key.n]
    ELSE IF key.t = "str" /\ key.s \in NumericShapes THEN [na |-> FALSE, n |-> key.n]
    ELSE [na |-> TRUE, n |-> 0]

\* astype(str).str.strip() of an Int64 value
Int64ToStr(i) == IF i.na THEN KNAStr ELSE KStr(i.n)

\* a conversion that skips the numeric step: astype(str).str.strip() alone
NormalizeTractUncoerced(key) ==
    IF key.t = "int" THEN KStr(key.n)
    ELSE IF key.t = "float" THEN KStrF(key.n)
    ELSE IF key.t = "null" THEN [t |-> "str", n |-> 0, s |-> "nan"]
    ELSE IF key.s = " d " THEN KStr(key.n)
    ELSE key

NormalizeTract(key) == Int64ToStr(ToInt64(key))

\* astype(str).str.strip() applied to a value of any type
AsTypeStrStrip(key) ==
    IF key.t = "int" THEN KStr(key.n)
    ELSE IF key.t = "float" THEN KStrF(key.n)
    ELSE IF key.t = "null" THEN [t |-> "str", n |-> 0, s |-> "nan"]
    ELSE IF key.s = " d " THEN KStr(key.n)
    ELSE key

-----------------------------------------------------------------------------
(* Column names.  A name is its stem and its suffix; the stem is a list of *)
(* tokens (one token for a column of the source files, one character per   *)
(* token for a name typed by the user).                                    *)

Col(base, sfx) == [base |-> base, sfx |-> sfx]

ORIGIN_TRACT == Col(<<"Origin_tract">>, "")
GEOMETRY     == Col(<<"geometry">>, "")
COUNTYFP     == Col(<<"COUNTYFP">>, "")
POPULATION   == Col(<<"population_x_o">>, "")
RACE         == Col(<<"race">>, "")
PERC_VISIT   == Col(<<"perc_visit">>, "")
TOTAL_WEIGHTED_SUM == Col(<<"total_weighted_sum">>, "")

ZScoreO(backend) == Col(<<backend>>, "_zscore_o")
ZScoreD(backend) == Col(<<backend>>, "_zscore_d")

\* the user-facing variable names of the catalog used here
valid_index_variables_for_selection == {"OZONE", "PM25", "PNPL"}

\* a lookup that answers with a catalog name for a name it does not hold
variable_name_map_with_default(var_js) ==
    IF var_js \in valid_index_variables_for_selection THEN var_js ELSE "OZONE"

\* variable_name_map_js_to_backend.get(var_js): the backend name (the
\* catalog name with its blanks removed; no catalog name holds one), or ""
\* (None) for a name that is not in the catalog
variable_name_map_js_to_backend(var_js) ==
    IF var_js \in valid_index_variables_for_selection THEN var_js ELSE ""

\* the frontend columns looked for in the GeoJSON at load
required_frontend_cols_in_geojson ==
    {ORIGIN_TRACT, GEOMETRY, COUNTYFP, POPULATION, RACE,
     ZScoreO("OZONE"), ZScoreO("PM25"), ZScoreO("PNPL")}

-----------------------------------------------------------------------------
(* Tables: a list of column names and a list of rows, each row a function  *)
(* from the column names to cell values.  None is the unloaded table.      *)

None == [loaded |-> FALSE, cols |-> <<>>, rows |-> <<>>]

Table(cols, rows) == [loaded |-> TRUE, cols |-> cols, rows |-> rows]

Columns(df) == SeqToSet(df.cols)

\* df[col] = f(df[col]) for every row
MapColumn(df, col, f(_)) ==
    [df EXCEPT !.rows = [i \in 1..Len(df.rows) |->
                            [df.rows[i] EXCEPT ![col] = f(df.rows[i][col])]]]

\* df.drop(columns=[col])
DropColumn(df, col) ==
    LET keep == SelectSeqBy(df.cols, Columns(df) \ {col})
    IN  [df EXCEPT !.cols = keep,
                   !.rows = [i \in 1..Len(df.rows) |->
                                [c \in SeqToSet(keep) |-> df.rows[i][c]]]]

\* df[cols]: the projection on a list of columns
Project(df, cols) ==
    [df EXCEPT !.cols = cols,
               !.rows = [i \in 1..Len(df.rows) |->
                            [c \in SeqToSet(cols) |-> df.rows[i][c]]]]

\* pd.api.types.is_string_dtype of the key column
IsStringDtype(df, col) == \A i \in 1..Len(df.rows) : df.rows[i][col].t = "str"

-----------------------------------------------------------------------------
(* The source files.  The GeoJSON holds one row per tract with the         *)
(* residential z-scores of OZONE and PM25 (no PNPL column); the Parquet    *)
(* file holds one row per visit with its weight and the activity z-scores  *)
(* of OZONE and PM25 (no PNPL column).  A key column has one type: all     *)
(* integers, all floats (NaN for a missing key) or all strings.            *)

GeoCols == <<ORIGIN_TRACT, GEOMETRY, ZScoreO("OZONE"), ZScoreO("PM25")>>

GeoRow(key, zs) ==
    (ORIGIN_TRACT :> key) @@ (GEOMETRY :> "polygon")
      @@ (ZScoreO("OZONE") :> zs[1]) @@ (ZScoreO("PM25") :> zs[2])

GeoTable(keys, zs) ==
    Table(GeoCols, [i \in 1..Len(keys) |-> GeoRow(keys[i], zs[i])])

GeoKeyLists ==
    { <<KInt(1), KInt(2)>>,        \* two tracts
      <<KInt(1), KInt(1)>>,        \* one tract in two rows
      <<KFloat(1), KNull>>,        \* float column with a missing key
      <<KPad(1), KStrF(2)>>,       \* string column, other spellings
      <<KStr(1), KBad>> }          \* string column with a key that is no number

ZsA == << <<Num(1, 5), NULL>>, <<Num(1, 1), Num(-1, 1)>> >>
ZsB == << <<NULL, NULL>>, <<Num(1, 5), Num(1, 1)>> >>

RawGeoTables ==
    { GeoTable(keys, ZsA) : keys \in GeoKeyLists }
      \cup { GeoTable(<<KInt(1), KInt(2)>>, ZsB) }

PqCols == <<ORIGIN_TRACT, PERC_VISIT, ZScoreD("OZONE"), ZScoreD("PM25")>>

PqRow(key, v) ==
    (ORIGIN_TRACT :> key) @@ (PERC_VISIT :> v[1])
      @@ (ZScoreD("OZONE") :> v[2]) @@ (ZScoreD("PM25") :> v[3])

PqTable(keys, vs) ==
    Table(PqCols, [i \in 1..Len(keys) |-> PqRow(keys[i], vs[i])])

\* per visit: <<perc_visit, OZONE_zscore_d, PM25_zscore_d>>
PqValsA == << <<Num(2, 1), Num(3, 2), Num(-1, 1)>>, <<Num(1, 2), Num(1, 1), NULL>> >>
\* the second visit has weight zero
PqValsB == << <<Num(2, 1), Num(3, 2), Num(-1, 1)>>, <<Num(0, 1), Num(1, 1), Num(1, 1)>> >>
\* no visit has a weight
PqValsC == << <<NULL, Num(3, 2), Num(-1, 1)>>,      <<Num(0, 1), Num(1, 1), Num(1, 1)>> >>

PqValLists == {PqValsA, PqValsB, PqValsC}

PqKeyLists ==
    { <<KInt(1)>>,                 \* one visit of tract 1
      <<KInt(1), KInt(2)>>,
      <<KInt(2), KInt(3)>>,        \* tract 3 is in no GeoJSON
      <<KFloat(2), KNull>>,
      <<KStr(1), KStrF(1)>>,       \* tract 1 in two spellings
      <<KStr(1), KBad>> }

RawParquetTables ==
    { PqTable(keys, PqValsA) : keys \in PqKeyLists }
      \cup { PqTable(<<KInt(1), KInt(1)>>, vs) : vs \in PqValLists }
      \cup { PqTable(<<KInt(1), KInt(2)>>, PqValsB),
             DropColumn(PqTable(<<KInt(1)>>, PqValsA), PERC_VISIT) }

-----------------------------------------------------------------------------
(* Index names: a name typed by the user is a list of characters.          *)

Whitespace == {" ", "\t"}
WordChars  == {"a", "b", "M", "y", "I", "n", "d", "e", "x", "1", "_"}

RECURSIVE LStrip(_)
LStrip(s) == IF s # <<>> /\ Head(s) \in Whitespace THEN LStrip(Tail(s)) ELSE s

RECURSIVE RStrip(_)
RStrip(s) ==
    IF s # <<>> /\ s[Len(s)] \in Whitespace THEN RStrip(SubSeq(s, 1, Len(s) - 1)) ELSE s

\* a name taken as typed, its blanks kept
NotStripped(s) == s

\* str.strip()
Strip(s) == RStrip(LStrip(s))

RECURSIVE SubWhitespaceRuns(_)
\* re.sub(r'\s+', '_', s): every maximal run of whitespace becomes one "_"
SubWhitespaceRuns(s) ==
    IF s = <<>> THEN <<>>
    ELSE IF Head(s) \in Whitespace
         THEN <<"_">> \o SubWhitespaceRuns(LStrip(s))
         ELSE <<Head(s)>> \o SubWhitespaceRuns(Tail(s))

\* a substitution that removes nothing
RemoveNothing(s) == s

\* re.sub(r'[^\w_]', '', s): every character that is no word character goes
RemoveNonWord(s) == SelectSeqBy(s, WordChars)

\* cleaned_base_name
CleanBaseName(base_name_from_user) ==
    RemoveNonWord(SubWhitespaceRuns(base_name_from_user))

-----------------------------------------------------------------------------
(* Requests.  A JSON field is given or missing; data.get('name', '') is    *)
(* the empty name and data.get('variables', []) the empty list for a       *)
(* missing field.                                                          *)

Given(x)   == [given |-> TRUE, val |-> x]
Missing    == [given |-> FALSE, val |-> <<>>]

Request(route, name, variables) ==
    [route |-> route, name |-> name, variables |-> variables, passcode |-> ""]

NoRequest == Request("none", Missing, Missing)

\* names that fail validation
BadNames == { Missing, Given(<<>>), Given(<<" ", "\t">>), Given(<<"!", "?">>) }

\* the selections tried under the name "a"
VariableLists ==
    { <<"bogus">>, <<"PNPL">>,
      <<"OZONE">>, <<"OZONE", "PM25">>, <<"bogus", "OZONE">>, <<"PM25", "PNPL">> }

\* the JSON bodies posted to a generation route
GenerationBodies ==
    { <<nm, Given(<<"OZONE">>)>> : nm \in BadNames }
      \cup { <<Given(<<"a">>), vs>> : vs \in {Missing, Given(<<>>)} }
      \cup { <<Given(<<"a">>), Given(vs)>> : vs \in VariableLists }
      \cup { <<Given(<<"M", "y", "\t", " ", "I", "n", "d", "e", "x">>), Given(<<"PM25">>)>>,
             <<Given(<<" ", " ", "M", "y", " ", "I", "n", "d", "e", "x", "!", "!", " ">>),
               Given(<<"PM25">>)>>,
             <<Missing, Missing>> }

ErrorResponse(status, error) ==
    [status |-> status, body |-> "error", error |-> error, doc |-> None]

DocResponse(doc) ==
    [status |-> 200, body |-> "geojson", error |-> "", doc |-> doc]

NoResponse == [status |-> 0, body |-> "none", error |-> "", doc |-> None]

-----------------------------------------------------------------------------
(* The process state a handler reads and writes, and what a handler        *)
(* returns: the state it leaves and its response.                          *)

State(gdf, pq, reg, avail, verified, resvars) ==
    [gdf |-> gdf, pq |-> pq, reg |-> reg, avail |-> avail, verified |-> verified,
     resvars |-> resvars]

Return(S, response) == [state |-> S, resp |-> response]

\* get_columns_for_frontend: the columns of global_gdf that are sent.  The
\* sorted list is kept as a set: the columns are the keys of the JSON
\* object "properties" of each feature.
\* a column selection that leaves the generated columns out
get_columns_without_generated(S) ==
    IF ~S.gdf.loaded THEN {}
    ELSE (S.verified \cup {ORIGIN_TRACT, GEOMETRY, COUNTYFP, POPULATION, RACE})
            \cap Columns(S.gdf)

get_columns_for_frontend(S) ==
    IF ~S.gdf.loaded THEN {}
    ELSE LET current_gdf_cols == Columns(S.gdf)
             cols_to_send ==
                 S.verified \cup {ORIGIN_TRACT, GEOMETRY, COUNTYFP, POPULATION, RACE}
                   \cup (S.reg \cap current_gdf_cols)
         IN  cols_to_send \cap current_gdf_cols

\* global_gdf[cols_to_send] serialised: the document's columns and rows
Snapshot(gdf, cols_to_send) ==
    [loaded |-> TRUE, cols |-> cols_to_send,
     rows |-> [i \in 1..Len(gdf.rows) |-> [c \in cols_to_send |-> gdf.rows[i][c]]]]

-----------------------------------------------------------------------------
(* /generate_index: the weighted sum over the Visitation Table             *)

RECURSIVE ResolveActivity(_, _)
\* the loop over selected_vars_js
ResolveActivity(selected_vars_js, acc) ==
    IF selected_vars_js = <<>> THEN acc
    ELSE LET var_js == Head(selected_vars_js)
             backend_name == variable_name_map_js_to_backend(var_js)
         IN  ResolveActivity(Tail(selected_vars_js),
                IF backend_name # ""
                THEN [acc EXCEPT
                        !.selected_vars_backend = Append(@, backend_name),
                        !.required_zscore_d_cols_for_request =
                            Append(@, ZScoreD(backend_name))]
                ELSE [acc EXCEPT !.invalid_vars_received = Append(@, var_js)])

NothingResolved ==
    [selected_vars_backend |-> <<>>, invalid_vars_received |-> <<>>,
     required_zscore_d_cols_for_request |-> <<>>]

\* WHERE "perc_visit" IS NOT NULL, a zero weight let through
WeightFilterNotNull(row) == ~IsNull(row[PERC_VISIT])

\* WHERE "perc_visit" IS NOT NULL AND "perc_visit" != 0
WeightFilter(row) == ~IsNull(row[PERC_VISIT]) /\ row[PERC_VISIT] # Num(0, 1)

RECURSIVE WeightedSumExpr(_, _)
\* "c1"::DOUBLE * "perc_visit"::DOUBLE + "c2"::DOUBLE * "perc_visit"::DOUBLE + ...
WeightedSumExpr(row, cols) ==
    IF Len(cols) = 1 THEN Mul(row[cols[1]], row[PERC_VISIT])
    ELSE Add(WeightedSumExpr(row, SubSeq(cols, 1, Len(cols) - 1)),
             Mul(row[cols[Len(cols)]], row[PERC_VISIT]))

RECURSIVE SqlSum(_)
\* SUM(...): the sum of the non-null values, NULL when there is none
SqlSum(values) ==
    IF values = <<>> THEN NULL
    ELSE LET rest == SqlSum(Tail(values))
         IN  IF IsNull(Head(values)) THEN rest
             ELSE IF IsNull(rest) THEN Head(values)
             ELSE Add(Head(values), rest)

RECURSIVE GroupKeys(_, _)
\* the distinct keys of the rows, in the order of their first row
GroupKeys(rows, seen) ==
    IF rows = <<>> THEN <<>>
    ELSE LET key == Head(rows)[ORIGIN_TRACT]
         IN  IF key \in seen THEN GroupKeys(Tail(rows), seen)
             ELSE <<key>> \o GroupKeys(Tail(rows), seen \cup {key})

RECURSIVE RowsOfKey(_, _)
RowsOfKey(rows, key) ==
    IF rows = <<>> THEN <<>>
    ELSE IF Head(rows)[ORIGIN_TRACT] = key
         THEN <<Head(rows)>> \o RowsOfKey(Tail(rows), key)
         ELSE RowsOfKey(Tail(rows), key)

RECURSIVE FilterRows(_)
FilterRows(rows) ==
    IF rows = <<>> THEN <<>>
    ELSE IF WeightFilter(Head(rows)) THEN <<Head(rows)>> \o FilterRows(Tail(rows))
         ELSE FilterRows(Tail(rows))

\* the DuckDB query: SELECT "Origin_tract", SUM(expr) AS total_weighted_sum
\* FROM parquet_df WHERE ... GROUP BY "Origin_tract"
DuckDBQuery(pq, cols) ==
    LET rows == FilterRows(pq.rows)
        keys == GroupKeys(rows, {})
        total(key) ==
            LET rs == RowsOfKey(rows, key)
            IN  SqlSum([i \in 1..Len(rs) |-> WeightedSumExpr(rs[i], cols)])
    IN  Table(<<ORIGIN_TRACT, TOTAL_WEIGHTED_SUM>>,
              [i \in 1..Len(keys) |->
                  (ORIGIN_TRACT :> keys[i]) @@ (TOTAL_WEIGHTED_SUM :> total(keys[i]))])

\* .replace([np.inf, -np.inf], np.nan)
ReplaceInf(v) == IF IsInf(v) THEN NULL ELSE v

\* .astype('float32'): a finite double beyond the range of a 32-bit float
\* becomes the infinity of its sign; a value within the range is kept
\* (rounding to 24 bits is not modelled)
AsFloat32(v) == IF IsBig(v) THEN (IF Sign(v) > 0 THEN PINF ELSE NINF) ELSE v

\* the total scaled without the division by the number of variables
FinalIndexValueUndivided(total_weighted_sum, num_vars) ==
    AsFloat32(Times100(ReplaceInf(total_weighted_sum)))

\* (total_sum / num_vars * 100.0).astype('float32')
FinalIndexValue(total_weighted_sum, num_vars) ==
    AsFloat32(Times100(DivInt(ReplaceInf(total_weighted_sum), num_vars)))

\* index_by_tract_df after the tract-id conversion and the final calculation,
\* cut to the columns Origin_tract and index_col_name
IndexToMerge(index_by_tract_df, index_col_name, num_vars) ==
    Table(<<ORIGIN_TRACT, index_col_name>>,
          [i \in 1..Len(index_by_tract_df.rows) |->
              (ORIGIN_TRACT :> NormalizeTract(index_by_tract_df.rows[i][ORIGIN_TRACT]))
                @@ (index_col_name :>
                      FinalIndexValue(index_by_tract_df.rows[i][TOTAL_WEIGHTED_SUM],
                                      num_vars))])

RECURSIVE MergeRows(_, _, _)
\* the rows of a left join on Origin_tract: each left row once per matching
\* right row, or once with a null when no right row matches
MergeRows(left_rows, right, col) ==
    IF left_rows = <<>> THEN <<>>
    ELSE LET l == Head(left_rows)
             matches == RowsOfKey(right.rows, l[ORIGIN_TRACT])
             joined ==
                 IF matches = <<>> THEN << l @@ (col :> NULL) >>
                 ELSE [j \in 1..Len(matches) |-> l @@ (col :> matches[j][col])]
         IN  joined \o MergeRows(Tail(left_rows), right, col)

\* an inner join: the left rows without a value are gone
InnerMerge(gdf, index_to_merge, col) ==
    LET Matched(row) == ~IsNull(row[col])
    IN  Table(Append(gdf.cols, col),
              SelectSeq(MergeRows(gdf.rows, index_to_merge, col), Matched))

\* gdf.merge(index_to_merge, on="Origin_tract", how="left")
LeftMerge(gdf, index_to_merge, col) ==
    Table(Append(gdf.cols, col), MergeRows(gdf.rows, index_to_merge, col))


\* the drop of an existing column of the name, with its state tracking
DropExisting(S, index_col_name) ==
    IF index_col_name \in Columns(S.gdf)
    THEN [S EXCEPT !.gdf = DropColumn(S.gdf, index_col_name),
                   !.avail = IF index_col_name \in SeqToSet(@)
                             THEN RemoveFirst(@, index_col_name) ELSE @,
                   !.reg = @ \ {index_col_name}]
    ELSE S

\* the conversion of a key column to strings when it is not one already
EnsureStringKeys(df) ==
    IF ~IsStringDtype(df, ORIGIN_TRACT)
    THEN MapColumn(df, ORIGIN_TRACT, AsTypeStrStrip) ELSE df

\* a registration that leaves the list of available columns alone
RegisterColumnUnlisted(S, index_col_name) ==
    [S EXCEPT !.reg = @ \cup {index_col_name}]

\* a registration that forgets the columns registered before
RegisterColumnAlone(S, index_col_name) ==
    [S EXCEPT !.reg = {index_col_name},
              !.avail = IF index_col_name \notin SeqToSet(@)
                        THEN Append(@, index_col_name) ELSE @]

\* the new column tracked as available but not entered in the registry
RegisterColumnUnrecorded(S, index_col_name) ==
    [S EXCEPT !.avail = IF index_col_name \notin SeqToSet(@)
                        THEN Append(@, index_col_name) ELSE @]

\* generated_index_columns.add and the append to available_geojson_columns
RegisterColumn(S, index_col_name) ==
    [S EXCEPT !.reg = @ \cup {index_col_name},
              !.avail = IF index_col_name \notin SeqToSet(@)
                        THEN Append(@, index_col_name) ELSE @]

\* the response of a generation request: the updated slice of global_gdf
FinalSlice(S) ==
    LET cols_to_send == get_columns_for_frontend(S)
    IN  IF cols_to_send = {}
        THEN ErrorResponse(500, "Internal error selecting columns for response.")
        ELSE DocResponse(Snapshot(S.gdf, cols_to_send))

\* the merge of index_to_merge into global_gdf and what follows it
MergeIntoGdf(S0, index_to_merge, index_col_name) ==
    LET S1 == DropExisting(S0, index_col_name)
        S2 == [S1 EXCEPT !.gdf = EnsureStringKeys(@)]
        to_merge == EnsureStringKeys(index_to_merge)
        original_rows == Len(S2.gdf.rows)
        S3 == [S2 EXCEPT !.gdf = LeftMerge(@, to_merge, index_col_name)]
    IN  \* a changed row count is only printed as a warning
        IF index_col_name \notin Columns(S3.gdf)
        THEN Return(S3, ErrorResponse(500, "Failed to merge index results"))
        ELSE LET S4 == RegisterColumn(S3, index_col_name)
             IN  Return(S4, FinalSlice(S4))

\* an aggregation that gives up on a query result without rows
AggregateRefusingEmpty(S, resolved, index_col_name) ==
    LET pq == EnsureStringKeys(S.pq)
        index_by_tract_df == DuckDBQuery(pq, resolved.required_zscore_d_cols_for_request)
        num_vars == Len(resolved.selected_vars_backend)
    IN  IF index_by_tract_df.rows = <<>>
        THEN Return(S, ErrorResponse(500, "Data query returned no results."))
        ELSE MergeIntoGdf([S EXCEPT !.pq = pq],
                          IndexToMerge(index_by_tract_df, index_col_name, num_vars),
                          index_col_name)

\* the aggregation, from the query to index_to_merge
Aggregate(S, resolved, index_col_name) ==
    LET \* the conversion of parquet_df's keys when they are no strings
        pq == EnsureStringKeys(S.pq)
        index_by_tract_df == DuckDBQuery(pq, resolved.required_zscore_d_cols_for_request)
        num_vars == Len(resolved.selected_vars_backend)
    IN  MergeIntoGdf([S EXCEPT !.pq = pq],
                     IndexToMerge(index_by_tract_df, index_col_name, num_vars),
                     index_col_name)

generate_activity_index(S, data) ==
    IF ~S.gdf.loaded \/ ~S.pq.loaded
    THEN Return(S, ErrorResponse(503, "Required data not loaded"))
    ELSE IF ~data.name.given /\ ~data.variables.given
    THEN Return(S, ErrorResponse(400, "Invalid request data."))
    ELSE
    LET base_name_from_user == Strip(data.name.val)
        selected_vars_js == data.variables.val
        cleaned_base_name == CleanBaseName(base_name_from_user)
        index_col_name == Col(cleaned_base_name, "_ACT")
        resolved == ResolveActivity(selected_vars_js, NothingResolved)
        missing_parquet_cols ==
            SelectSeqBy(resolved.required_zscore_d_cols_for_request,
                        SeqToSet(resolved.required_zscore_d_cols_for_request)
                          \ Columns(S.pq))
    IN  IF base_name_from_user = <<>>
        THEN Return(S, ErrorResponse(400, "Index name required."))
        ELSE IF selected_vars_js = <<>>
        THEN Return(S, ErrorResponse(400, "No variables selected."))
        ELSE IF cleaned_base_name = <<>>
        THEN Return(S, ErrorResponse(400, "Invalid index name after cleaning."))
        ELSE IF resolved.selected_vars_backend = <<>>
        THEN Return(S, ErrorResponse(400, "No valid variables selected."))
        ELSE IF missing_parquet_cols # <<>>
        THEN Return(S, ErrorResponse(400, "Required data columns missing from source"))
        ELSE IF PERC_VISIT \notin Columns(S.pq)
        THEN Return(S, ErrorResponse(400, "Required data column 'perc_visit' missing from source."))
        ELSE Aggregate(S, resolved, index_col_name)

-----------------------------------------------------------------------------
(* /generate_residential_index: the mean over columns of global_gdf        *)

RECURSIVE ResolveResidential(_, _, _)
\* the loop over selected_vars_js
ResolveResidential(selected_vars_js, available, acc) ==
    IF selected_vars_js = <<>> THEN acc
    ELSE LET var_js == Head(selected_vars_js)
             backend_name == variable_name_map_js_to_backend(var_js)
             zscore_col == ZScoreO(backend_name)
         IN  ResolveResidential(Tail(selected_vars_js), available,
                IF backend_name = "" THEN acc      \* warning printed, continue
                ELSE IF zscore_col \in available
                THEN [acc EXCEPT !.required_zscore_o_cols = Append(@, zscore_col)]
                ELSE [acc EXCEPT !.invalid_vars_for_residential = Append(@, var_js)])

NothingResolvedResidential ==
    [required_zscore_o_cols |-> <<>>, invalid_vars_for_residential |-> <<>>]

RECURSIVE SumNonNull(_, _)
SumNonNull(row, cols) ==
    IF cols = <<>> THEN Num(0, 1)
    ELSE IF IsNull(row[Head(cols)]) THEN SumNonNull(row, Tail(cols))
         ELSE Add(row[Head(cols)], SumNonNull(row, Tail(cols)))

RECURSIVE CountNonNull(_, _)
CountNonNull(row, cols) ==
    IF cols = <<>> THEN 0
    ELSE (IF IsNull(row[Head(cols)]) THEN 0 ELSE 1) + CountNonNull(row, Tail(cols))

\* the mean with a null counted as a zero
RowMeanNullAsZero(row, cols) == DivInt(SumNonNull(row, cols), Len(cols))

\* global_gdf[cols].mean(axis=1, skipna=True) of one row
RowMean(row, cols) ==
    IF CountNonNull(row, cols) = 0 THEN NULL
    ELSE DivInt(SumNonNull(row, cols), CountNonNull(row, cols))

\* global_gdf[index_col_name] = index_values
AttachColumn(gdf, col, values) ==
    Table(Append(gdf.cols, col),
          [i \in 1..Len(gdf.rows) |-> gdf.rows[i] @@ (col :> values[i])])

\* the response of the residential request
FinalSliceResidential(S) ==
    LET cols_to_send == get_columns_for_frontend(S)
    IN  IF cols_to_send = {} \/ GEOMETRY \notin cols_to_send
        THEN ErrorResponse(500, "Internal error selecting columns for response.")
        ELSE DocResponse(Snapshot(S.gdf, cols_to_send))

\* the calculation and the update of global_gdf and the state lists
CalculateResidential(S, required_zscore_o_cols, index_col_name) ==
    LET cols_to_average == SelectSeqBy(required_zscore_o_cols, Columns(S.gdf))
        index_values ==
            [i \in 1..Len(S.gdf.rows) |->
                Times100(AsFloat32(RowMean(S.gdf.rows[i], cols_to_average)))]
        S1 == DropExisting(S, index_col_name)
        S2 == [S1 EXCEPT !.gdf = AttachColumn(@, index_col_name, index_values)]
        S3 == RegisterColumn(S2, index_col_name)
    IN  IF cols_to_average = <<>>
        THEN Return(S, ErrorResponse(500, "No valid columns found in GeoDataFrame for averaging."))
        ELSE Return(S3, FinalSliceResidential(S3))

generate_residential_index(S, data) ==
    IF ~S.gdf.loaded
    THEN Return(S, ErrorResponse(503, "Map data not loaded."))
    ELSE IF ~data.name.given /\ ~data.variables.given
    THEN Return(S, ErrorResponse(400, "Invalid request."))
    ELSE
    LET base_name_from_user == Strip(data.name.val)
        selected_vars_js == data.variables.val
        cleaned_base_name == CleanBaseName(base_name_from_user)
        index_col_name == Col(cleaned_base_name, "_RES")
        resolved == ResolveResidential(selected_vars_js, SeqToSet(S.avail),
                                       NothingResolvedResidential)
    IN  IF base_name_from_user = <<>>
        THEN Return(S, ErrorResponse(400, "Index name required."))
        ELSE IF selected_vars_js = <<>>
        THEN Return(S, ErrorResponse(400, "No variables selected."))
        ELSE IF cleaned_base_name = <<>>
        THEN Return(S, ErrorResponse(400, "Invalid index name."))
        ELSE IF resolved.required_zscore_o_cols = <<>>
        THEN Return(S, ErrorResponse(400, "None of the selected variables have required data"))
        ELSE CalculateResidential(S, resolved.required_zscore_o_cols, index_col_name)

\* /geojson without the look at global_gdf being None
geojson_unguarded(S) ==
    LET cols_to_send == get_columns_for_frontend(S)
    IN  IF GEOMETRY \notin cols_to_send
        THEN Return(S, ErrorResponse(500, "Internal error preparing map data (geometry missing)."))
        ELSE Return(S, DocResponse(Snapshot(S.gdf, cols_to_send)))

\* /geojson
geojson(S) ==
    IF ~S.gdf.loaded
    THEN Return(S, ErrorResponse(503, "Map data not loaded on server."))
    ELSE LET cols_to_send == get_columns_for_frontend(S)
         IN  IF GEOMETRY \notin cols_to_send
             THEN Return(S, ErrorResponse(500, "Internal error preparing map data (geometry missing)."))
             ELSE Return(S, DocResponse(Snapshot(S.gdf, cols_to_send)))

-----------------------------------------------------------------------------
(* The routes of src/data/app_local.py, where they differ: the query reads *)
(* the Parquet file itself, the merge is checked before it is stored, and  *)
(* the residential route resolves against the list made at load.           *)

\* get_columns_for_frontend of app_local.py
-----------------------------------------------------------------------------
(* Exceptions.  Each generation handler runs its stages inside try blocks: *)
(* the aggregation (the DuckDB query, the row mean), the attach (the drop  *)
(* of the old column and the merge or the column assignment) and the       *)
(* snapshot for the response.  An exception raised in a stage is caught    *)
(* and answered with 500; the globals keep what the statements before it   *)
(* have assigned.  A request that ends before the first stage is not       *)
(* touched by an exception.                                                *)

Stages == {"aggregation", "attach", "snapshot"}

\* f"{cleaned_base_name}_ACT" / f"{cleaned_base_name}_RES"
IndexColName(data, sfx) == Col(CleanBaseName(Strip(data.name.val)), sfx)

\* an activity handler that drops the old column before it aggregates
generate_activity_index_dropping_first(S, data, stage) ==
    LET completed == generate_activity_index(S, data)
        index_col_name == IndexColName(data, "_ACT")
    IN  IF completed.resp.status # 200 THEN completed
        ELSE IF stage = "aggregation"
        THEN Return(DropExisting(S, index_col_name),
                    ErrorResponse(500, "Data query failed during aggregation."))
        ELSE IF stage = "attach"
        THEN Return(DropExisting(S, index_col_name),
                    ErrorResponse(500, "Failed to merge index results"))
        ELSE Return(completed.state, ErrorResponse(500, "Failed to format final data"))

\* generate_activity_index with an exception raised in the stage
generate_activity_index_failing(S, data, stage) ==
    LET completed == generate_activity_index(S, data)
        index_col_name == IndexColName(data, "_ACT")
    IN  IF completed.resp.status # 200 THEN completed
        ELSE IF stage = "aggregation"
        THEN \* except Exception as e (517-522): nothing has been assigned
             Return(S, ErrorResponse(500, "Data query failed during aggregation."))
        ELSE IF stage = "attach"
        THEN \* except Exception as e_merge (586-588): the drop has been made
             Return(DropExisting(S, index_col_name),
                    ErrorResponse(500, "Failed to merge index results"))
        ELSE \* except Exception as e_final (603-605): merged and registered
             Return(completed.state, ErrorResponse(500, "Failed to format final data"))

\* generate_residential_index with an exception raised in the stage
generate_residential_index_failing(S, data, stage) ==
    LET completed == generate_residential_index(S, data)
        index_col_name == IndexColName(data, "_RES")
    IN  IF completed.resp.status # 200 THEN completed
        ELSE IF stage = "aggregation"
        THEN \* the mean raises (660): except Exception as e_calc (676-678)
             Return(S, ErrorResponse(500, "Calculation failed: mean"))
        ELSE IF stage = "attach"
        THEN \* the assignment of the column raises (669), after the drop
             Return(DropExisting(S, index_col_name),
                    ErrorResponse(500, "Calculation failed: assignment"))
        ELSE \* except Exception as e_final (695-697)
             Return(completed.state,
                    ErrorResponse(500, "Failed to format final data for residential"))

get_columns_for_frontend_local(S) ==
    IF ~S.gdf.loaded THEN {}
    ELSE (S.verified \cup (S.reg \cap Columns(S.gdf)) \cup {ORIGIN_TRACT, GEOMETRY})
            \cap Columns(S.gdf)

FinalSliceLocal(S) ==
    LET cols_to_send == get_columns_for_frontend_local(S)
    IN  IF cols_to_send = {} \/ GEOMETRY \notin cols_to_send
        THEN ErrorResponse(500, "Internal error selecting columns.")
        ELSE DocResponse(Snapshot(S.gdf, cols_to_send))

\* the drop of an existing column in app_local.py, which also edits
\* verified_frontend_cols
DropExistingLocal(S, index_col_name) ==
    IF index_col_name \in Columns(S.gdf)
    THEN [DropExisting(S, index_col_name) EXCEPT !.verified = @ \ {index_col_name}]
    ELSE S

\* the merge of app_local.py: merged_gdf is stored once the column is in it
MergeIntoGdfLocal(S0, index_to_merge, index_col_name) ==
    LET S1 == DropExistingLocal(S0, index_col_name)
        S2 == [S1 EXCEPT !.gdf = MapColumn(@, ORIGIN_TRACT, NormalizeTract)]
        merged_gdf == LeftMerge(S2.gdf, index_to_merge, index_col_name)
    IN  IF ORIGIN_TRACT \notin Columns(S1.gdf)
        THEN Return(S1, ErrorResponse(500, "Base map missing 'Origin_tract'."))
        ELSE IF index_col_name \notin Columns(merged_gdf)
        THEN Return(S2, ErrorResponse(500, "Merge failed unexpectedly"))
        ELSE LET S3 == RegisterColumn([S2 EXCEPT !.gdf = merged_gdf], index_col_name)
             IN  Return(S3, FinalSliceLocal(S3))

\* generate_index of app_local.py
generate_index(S, data) ==
    IF ~S.gdf.loaded
    THEN Return(S, ErrorResponse(500, "Map data not loaded on server. Check server logs."))
    ELSE IF ~data.name.given /\ ~data.variables.given
    THEN Return(S, ErrorResponse(400, "Invalid request data."))
    ELSE
    LET base_name_from_user == Strip(data.name.val)
        selected_vars_js == data.variables.val
        cleaned_base_name == CleanBaseName(base_name_from_user)
        index_col_name == Col(cleaned_base_name, "_ACT")
        resolved == ResolveActivity(selected_vars_js, NothingResolved)
        query_columns ==
            SeqToSet(resolved.required_zscore_d_cols_for_request)
              \cup {ORIGIN_TRACT, PERC_VISIT}
        index_by_tract_df ==
            DuckDBQuery(S.pq, resolved.required_zscore_d_cols_for_request)
        num_vars == Len(resolved.selected_vars_backend)
    IN  IF base_name_from_user = <<>>
        THEN Return(S, ErrorResponse(400, "Index name required."))
        ELSE IF selected_vars_js = <<>>
        THEN Return(S, ErrorResponse(400, "No variables selected."))
        ELSE IF cleaned_base_name = <<>>
        THEN Return(S, ErrorResponse(400, "Invalid index name."))
        ELSE IF resolved.selected_vars_backend = <<>>
        THEN Return(S, ErrorResponse(400, "No valid variables selected."))
        ELSE IF ~S.pq.loaded \/ ~(query_columns \subseteq Columns(S.pq))
        THEN \* the query raises: no file, or a column the file does not hold
             Return(S, ErrorResponse(500, "Data query failed during aggregation."))
        ELSE MergeIntoGdfLocal(S,
                IndexToMerge(index_by_tract_df, index_col_name, num_vars),
                index_col_name)

RECURSIVE ResolveResidentialLocal(_, _, _)
\* the loop over selected_vars_js in app_local.py
ResolveResidentialLocal(selected_vars_js, S, acc) ==
    IF selected_vars_js = <<>> THEN acc
    ELSE LET var_js == Head(selected_vars_js)
             backend_name == variable_name_map_js_to_backend(var_js)
             zscore_col == ZScoreO(backend_name)
         IN  ResolveResidentialLocal(Tail(selected_vars_js), S,
                IF backend_name = "" THEN acc      \* warning printed, continue
                ELSE IF var_js \in S.resvars /\ zscore_col \in Columns(S.gdf)
                THEN [acc EXCEPT !.required_zscore_o_cols = Append(@, zscore_col)]
                ELSE [acc EXCEPT !.invalid_vars_for_residential = Append(@, var_js)])

\* generate_residential_index of app_local.py
generate_residential_index_local(S, data) ==
    IF ~S.gdf.loaded
    THEN Return(S, ErrorResponse(500, "Map data not loaded."))
    ELSE IF ~data.name.given /\ ~data.variables.given
    THEN Return(S, ErrorResponse(400, "Invalid request."))
    ELSE
    LET base_name_from_user == Strip(data.name.val)
        selected_vars_js == data.variables.val
        cleaned_base_name == CleanBaseName(base_name_from_user)
        index_col_name == Col(cleaned_base_name, "_RES")
        resolved == ResolveResidentialLocal(selected_vars_js, S,
                                            NothingResolvedResidential)
        index_values ==
            [i \in 1..Len(S.gdf.rows) |->
                Times100(AsFloat32(RowMean(S.gdf.rows[i], resolved.required_zscore_o_cols)))]
        S1 == DropExistingLocal(S, index_col_name)
        S2 == [S1 EXCEPT !.gdf = AttachColumn(@, index_col_name, index_values)]
        S3 == RegisterColumn(S2, index_col_name)
    IN  IF base_name_from_user = <<>>
        THEN Return(S, ErrorResponse(400, "Index name required."))
        ELSE IF selected_vars_js = <<>>
        THEN Return(S, ErrorResponse(400, "No variables selected."))
        ELSE IF cleaned_base_name = <<>>
        THEN Return(S, ErrorResponse(400, "Invalid index name."))
        ELSE IF resolved.required_zscore_o_cols = <<>>
        THEN Return(S, ErrorResponse(400, "None of the selected variables have required data"))
        ELSE Return(S3, FinalSliceLocal(S3))

\* /geojson of app_local.py
geojson_local(S) ==
    IF ~S.gdf.loaded
    THEN Return(S, ErrorResponse(500, "Map data not loaded on server. Check server logs."))
    ELSE LET cols_to_send == get_columns_for_frontend_local(S)
         IN  IF cols_to_send = {} \/ GEOMETRY \notin cols_to_send
             THEN Return(S, ErrorResponse(500, "Internal error preparing GeoJSON data for display."))
             ELSE Return(S, DocResponse(Snapshot(S.gdf, cols_to_send)))

-----------------------------------------------------------------------------
(* Start-up load *)

\* a load of the GeoJSON that keeps the key column as the file holds it
load_geojson_unconverted(raw) ==
    IF ~raw.loaded \/ ~({ORIGIN_TRACT, GEOMETRY} \subseteq Columns(raw))
    THEN [gdf |-> None, available |-> <<>>, verified |-> {}, resvars |-> {}]
    ELSE [gdf       |-> raw,
          available |-> raw.cols,
          verified  |-> required_frontend_cols_in_geojson \cap Columns(raw),
          resvars   |-> {js_var \in valid_index_variables_for_selection :
                            ZScoreO(variable_name_map_js_to_backend(js_var))
                                \in Columns(raw)}]

\* load_geojson_from_b2: None when the file could not be read or lacks an
\* essential column; otherwise the table with its keys converted
load_geojson_from_b2(raw) ==
    IF ~raw.loaded \/ ~({ORIGIN_TRACT, GEOMETRY} \subseteq Columns(raw))
    THEN [gdf |-> None, available |-> <<>>, verified |-> {}, resvars |-> {}]
    ELSE [gdf       |-> MapColumn(raw, ORIGIN_TRACT, NormalizeTract),
          available |-> raw.cols,
          verified  |-> required_frontend_cols_in_geojson \cap Columns(raw),
          resvars   |-> {js_var \in valid_index_variables_for_selection :
                            ZScoreO(variable_name_map_js_to_backend(js_var))
                                \in Columns(raw)}]

\* a load that keeps the key column as the file holds it
load_parquet_unconverted(raw) ==
    IF ~raw.loaded \/ ORIGIN_TRACT \notin Columns(raw) THEN None ELSE raw

\* load_parquet_from_b2
load_parquet_from_b2(raw) ==
    IF ~raw.loaded \/ ORIGIN_TRACT \notin Columns(raw)
    THEN None
    ELSE MapColumn(raw, ORIGIN_TRACT, NormalizeTract)

\* the pairs of source files the process is started on: every GeoJSON with
\* one Parquet file, every Parquet file with one GeoJSON, the files whose
\* key columns hold a key that is no number, and the files that cannot be read
GeoDefault == GeoTable(<<KInt(1), KInt(2)>>, ZsA)
PqDefault == PqTable(<<KInt(1), KInt(1)>>, PqValsA)

SourceFiles ==
    { <<g, PqDefault>> : g \in RawGeoTables }
      \cup { <<GeoDefault, p>> : p \in RawParquetTables }
      \cup { <<GeoTable(<<KStr(1), KBad>>, ZsA), PqTable(<<KStr(1), KBad>>, PqValsA)>>,
             <<GeoTable(<<KFloat(1), KNull>>, ZsA), PqTable(<<KFloat(2), KNull>>, PqValsA)>> }
      \cup { <<None, PqDefault>>, <<GeoDefault, None>>, <<None, None>> }

\* source files with values at the ends of the number range: a z-score far
\* beyond the range of a 32-bit float, and infinite z-scores
ZsExtreme == << <<BIG(1), NULL>>, <<PINF, Num(1, 1)>> >>
PqValsExtreme == << <<Num(2, 1), BIG(1), Num(-1, 1)>>, <<Num(1, 2), PINF, NINF>> >>

ExtremeSourceFiles ==
    { <<GeoTable(<<KInt(1), KInt(2)>>, ZsExtreme), PqDefault>>,
      <<GeoDefault, PqTable(<<KInt(1), KInt(2)>>, PqValsExtreme)>> }

\* a GeoJSON that already holds a column named like a generated index (a
\* file exported from an earlier run), with the default Parquet file
GeoWithIndexColumn ==
    LET g == GeoTable(<<KInt(1), KInt(2)>>, ZsA)
        index_col_name == Col(<<"a">>, "_ACT")
        values == <<Num(7, 1), Num(8, 1)>>
    IN  Table(Append(g.cols, index_col_name),
              [i \in 1..Len(g.rows) |-> g.rows[i] @@ (index_col_name :> values[i])])

PreloadedSourceFiles == { <<GeoWithIndexColumn, PqDefault>> }

\* the worker threads of a server that handles requests concurrently, and
\* a thread that handles no request
Threads == {1, 2}

IdleThread ==
    [pc |-> "idle", runs |-> 0, status |-> 0, index_col_name |-> Col(<<>>, ""),
     index_to_merge |-> None, left |-> None]

\* os.environ.get('APP_PASSCODE'): set, or not set
ConfiguredPasscodes == { <<"secret">>, <<>> }

\* the state after the module's start-up code has run
Started(v, files) ==
    LET g == load_geojson_from_b2(files[1])
    IN  /\ variant = v
        /\ CORRECT_PASSCODE \in ConfiguredPasscodes
        /\ global_gdf = g.gdf
        /\ available_geojson_columns = g.available
        /\ verified_frontend_cols = g.verified
        /\ available_residential_vars_js = g.resvars
        /\ parquet_df = IF v = "app" THEN load_parquet_from_b2(files[2]) ELSE files[2]
        /\ generated_index_columns = {}
        /\ session = [logged_in |-> FALSE]
        /\ req = NoRequest
        /\ resp = NoResponse
        /\ ngen = 0
        /\ threads = [t \in Threads |-> IdleThread]

\* src/app.py
Init == \E files \in SourceFiles : Started("app", files)

\* src/data/app_local.py
InitLocal == \E files \in SourceFiles : Started("app_local", files)

-----------------------------------------------------------------------------
(* Requests *)

\* request.form.get('passcode')
Passcodes == {"secret", "wrong", ""}

\* redirect(location) after flash(message)
Redirect(location, message) ==
    [status |-> 302, body |-> "redirect", error |-> "", doc |-> None,
     location |-> location, flash |-> message]

\* render_template(template) after flash(message)
Page(template, message) ==
    [status |-> 200, body |-> template, error |-> "", doc |-> None, flash |-> message]

CurrentState ==
    State(global_gdf, parquet_df, generated_index_columns,
          available_geojson_columns, verified_frontend_cols,
          available_residential_vars_js)

\* the handler's outcome becomes the process state and the response
Handled(r, out) ==
    /\ ngen < MaxGenerated \/ out.state.gdf = global_gdf
    /\ req' = r
    /\ resp' = out.resp
    /\ global_gdf' = out.state.gdf
    /\ parquet_df' = out.state.pq
    /\ generated_index_columns' = out.state.reg
    /\ available_geojson_columns' = out.state.avail
    /\ verified_frontend_cols' = out.state.verified
    /\ available_residential_vars_js' = out.state.resvars
    /\ ngen' = IF out.state.gdf # global_gdf THEN ngen + 1 ELSE ngen

\* login_required: without the flag the handler is not run and the body of
\* the request is never read
Redirected(r) ==
    /\ req' = Request(r.route, Missing, Missing)
    /\ resp' = Redirect("/login?next", "Please log in to access this page.")
    /\ UNCHANGED <<data_vars, config_vars>>

\* a login that lets an empty passcode pass when no secret is configured
LoginComparingOnly ==
    \E passcode \in Passcodes :
        /\ req' = [Request("/login", Missing, Missing) EXCEPT !.passcode = passcode]
        /\ IF <<passcode>> = CORRECT_PASSCODE \/ (passcode = "" /\ CORRECT_PASSCODE = <<>>)
           THEN /\ session' = [logged_in |-> TRUE]
                /\ resp' = Redirect("/", "You were successfully logged in!")
           ELSE /\ session' = session
                /\ resp' = Page("login.html", "Invalid passcode. Please try again.")
        /\ UNCHANGED <<data_vars, config_vars>>

Login ==
    \E passcode \in Passcodes :
        /\ req' = [Request("/login", Missing, Missing) EXCEPT !.passcode = passcode]
        /\ IF passcode # "" /\ <<passcode>> = CORRECT_PASSCODE
           THEN /\ session' = [logged_in |-> TRUE]
                /\ resp' = Redirect("/", "You were successfully logged in!")
           ELSE /\ session' = session
                /\ resp' = Page("login.html", "Invalid passcode. Please try again.")
        /\ UNCHANGED <<data_vars, config_vars>>

Logout ==
    /\ req' = Request("/logout", Missing, Missing)
    /\ session' = [logged_in |-> FALSE]
    /\ resp' = Redirect("/login", "You have been logged out.")
    /\ UNCHANGED <<data_vars, config_vars>>

\* index of app.py and of app_local.py
index(S) ==
    IF variant = "app" /\ (~S.gdf.loaded \/ ~S.pq.loaded)
    THEN Return(S, Page("index.html", "Error: Essential application data failed to load."))
    ELSE Return(S, Page("index.html", ""))

\* get_index_fields
get_index_fields(S) ==
    Return(S, [status |-> 200, body |-> "json", error |-> "", doc |-> None,
               fields |-> valid_index_variables_for_selection])

GetIndex ==
    LET r == Request("/", Missing, Missing)
    IN  /\ IF session.logged_in THEN Handled(r, index(CurrentState)) ELSE Redirected(r)
        /\ UNCHANGED <<session, config_vars>>

GetIndexFields ==
    LET r == Request("/get_index_fields", Missing, Missing)
    IN  /\ IF session.logged_in THEN Handled(r, get_index_fields(CurrentState))
           ELSE Redirected(r)
        /\ UNCHANGED <<session, config_vars>>

\* a request to /generate_index in which a stage raises
GenerateActivityIndexFailing ==
    \E body \in GenerationBodies : \E stage \in Stages :
        LET r == Request("/generate_index", body[1], body[2])
        IN  /\ session.logged_in
            /\ generate_activity_index(CurrentState, r).resp.status = 200
            /\ Handled(r, generate_activity_index_failing(CurrentState, r, stage))
            /\ UNCHANGED <<session, config_vars>>

\* a request to /generate_residential_index in which a stage raises
GenerateResidentialIndexFailing ==
    \E body \in GenerationBodies : \E stage \in Stages :
        LET r == Request("/generate_residential_index", body[1], body[2])
        IN  /\ session.logged_in
            /\ generate_residential_index(CurrentState, r).resp.status = 200
            /\ Handled(r, generate_residential_index_failing(CurrentState, r, stage))
            /\ UNCHANGED <<session, config_vars>>

-----------------------------------------------------------------------------
(* generate_activity_index handled by worker threads.  The module holds no *)
(* lock: a thread can be preempted between any two statements, and within  *)
(* global_gdf = global_gdf.merge(...) between the evaluation of the right  *)
(* side and the assignment.  Thread 1 handles requests for the name "a",   *)
(* thread 2 for the name "b"; each handles MaxRuns requests, one after the *)
(* other.                                                                  *)

MaxRuns == 2

ThreadBody(t) ==
    IF t = 1 THEN <<Given(<<"a">>), Given(<<"OZONE">>)>>
    ELSE <<Given(<<"b">>), Given(<<"PM25">>)>>

\* what a worker thread never writes
worker_frame == <<CORRECT_PASSCODE, variant, parquet_df, verified_frontend_cols,
                  available_residential_vars_js, session, req, resp, ngen>>

\* 444-553: the checks of the request and the aggregation, which read
\* global_gdf and parquet_df only
WorkerAggregate(t) ==
    LET r == Request("/generate_index", ThreadBody(t)[1], ThreadBody(t)[2])
        resolved == ResolveActivity(r.variables.val, NothingResolved)
        index_col_name == IndexColName(r, "_ACT")
    IN  /\ session.logged_in
        /\ threads[t].pc = "idle"
        /\ threads[t].runs < MaxRuns
        /\ generate_activity_index(CurrentState, r).resp.status = 200
        /\ threads' = [threads EXCEPT ![t] =
              [@ EXCEPT !.pc = "drop", !.runs = @ + 1,
                        !.index_col_name = index_col_name,
                        !.index_to_merge =
                            IndexToMerge(DuckDBQuery(parquet_df,
                                           resolved.required_zscore_d_cols_for_request),
                                         index_col_name,
                                         Len(resolved.selected_vars_backend))]]
        /\ UNCHANGED <<data_vars, worker_frame>>

\* 559-564: the drop of the existing column
WorkerDrop(t) ==
    LET S1 == DropExisting(CurrentState, threads[t].index_col_name)
    IN  /\ threads[t].pc = "drop"
        /\ global_gdf' = S1.gdf
        /\ generated_index_columns' = S1.reg
        /\ available_geojson_columns' = S1.avail
        /\ threads' = [threads EXCEPT ![t].pc = "merge"]
        /\ UNCHANGED worker_frame

\* 576, right side: global_gdf.merge(index_to_merge, ...) reads global_gdf
WorkerMerge(t) ==
    /\ threads[t].pc = "merge"
    /\ threads' = [threads EXCEPT ![t].pc = "assign", ![t].left = global_gdf]
    /\ UNCHANGED <<data_vars, worker_frame>>

\* 576, assignment: global_gdf = <the merged table>
WorkerAssign(t) ==
    /\ threads[t].pc = "assign"
    /\ global_gdf' = LeftMerge(threads[t].left, threads[t].index_to_merge,
                               threads[t].index_col_name)
    /\ threads' = [threads EXCEPT ![t].pc = "register", ![t].left = None]
    /\ UNCHANGED <<generated_index_columns, available_geojson_columns, worker_frame>>

\* 580-592: the check that the column is in global_gdf (500 otherwise) and
\* the registration
WorkerRegister(t) ==
    LET index_col_name == threads[t].index_col_name
        S4 == RegisterColumn(CurrentState, index_col_name)
    IN  /\ threads[t].pc = "register"
        /\ IF index_col_name \notin Columns(global_gdf)
           THEN /\ threads' = [threads EXCEPT ![t].pc = "idle", ![t].status = 500,
                                              ![t].index_to_merge = None]
                /\ UNCHANGED <<generated_index_columns, available_geojson_columns>>
           ELSE /\ threads' = [threads EXCEPT ![t].pc = "snapshot",
                                              ![t].index_to_merge = None]
                /\ generated_index_columns' = S4.reg
                /\ available_geojson_columns' = S4.avail
        /\ UNCHANGED <<global_gdf, worker_frame>>

\* 598-605: the slice for the response; gdf_to_send[index_col_name] raises
\* when the column is not among the columns sent
WorkerSnapshot(t) ==
    LET cols_to_send == get_columns_for_frontend(CurrentState)
    IN  /\ threads[t].pc = "snapshot"
        /\ threads' = [threads EXCEPT
              ![t].pc = "idle",
              ![t].status = IF threads[t].index_col_name \in cols_to_send
                            THEN 200 ELSE 500]
        /\ UNCHANGED <<data_vars, worker_frame>>

\* /geojson without the gate
GetGeojsonUngated ==
    /\ Handled(Request("/geojson", Missing, Missing),
               IF variant = "app" THEN geojson(CurrentState)
               ELSE geojson_local(CurrentState))
    /\ UNCHANGED <<session, config_vars>>

GetGeojson ==
    LET r == Request("/geojson", Missing, Missing)
    IN  /\ IF session.logged_in THEN Handled(r, IF variant = "app" THEN geojson(CurrentState)
                                       ELSE geojson_local(CurrentState))
           ELSE Redirected(r)
        /\ UNCHANGED <<session, config_vars>>

GenerateActivityIndex ==
    \E body \in GenerationBodies :
        LET r == Request("/generate_index", body[1], body[2])
        IN  /\ IF session.logged_in
               THEN Handled(r, IF variant = "app"
                               THEN generate_activity_index(CurrentState, r)
                               ELSE generate_index(CurrentState, r))
               ELSE Redirected(r)
            /\ UNCHANGED <<session, config_vars>>

GenerateResidentialIndex ==
    \E body \in GenerationBodies :
        LET r == Request("/generate_residential_index", body[1], body[2])
        IN  /\ IF session.logged_in
               THEN Handled(r, IF variant = "app"
                               THEN generate_residential_index(CurrentState, r)
                               ELSE generate_residential_index_local(CurrentState, r))
               ELSE Redirected(r)
            /\ UNCHANGED <<session, config_vars>>

Next ==
    \/ Login
    \/ Logout
    \/ GetIndex
    \/ GetIndexFields
    \/ GetGeojson
    \/ GenerateActivityIndex
    \/ GenerateResidentialIndex

Spec == Init /\ [][Next]_vars

\* either program, started on the source files with extreme values
InitNumeric == \E v \in {"app", "app_local"} : \E files \in ExtremeSourceFiles : Started(v, files)

SpecNumeric == InitNumeric /\ [][Next]_vars

\* app.py with the exceptions its handlers catch
FaultSourceFiles ==
    { <<GeoDefault, PqDefault>>, <<GeoDefault, PqTable(<<KInt(1), KInt(2)>>, PqValsB)>> }

InitFaults == \E files \in FaultSourceFiles : Started("app", files)

NextFaults ==
    \/ Login
    \/ Logout
    \/ GetIndex
    \/ GetIndexFields
    \/ GetGeojson
    \/ GenerateActivityIndex
    \/ GenerateResidentialIndex
    \/ GenerateActivityIndexFailing
    \/ GenerateResidentialIndexFailing

SpecFaults == InitFaults /\ [][NextFaults]_vars

\* app.py served by worker threads, with /geojson and /login next to them
InitConcurrent == Started("app", <<GeoDefault, PqDefault>>)

NextConcurrent ==
    \/ Login
    \/ GetGeojson
    \/ \E t \in Threads : WorkerAggregate(t)
    \/ \E t \in Threads : WorkerDrop(t)
    \/ \E t \in Threads : WorkerMerge(t)
    \/ \E t \in Threads : WorkerAssign(t)
    \/ \E t \in Threads : WorkerRegister(t)
    \/ \E t \in Threads : WorkerSnapshot(t)

SpecConcurrent == InitConcurrent /\ [][NextConcurrent]_vars

\* app.py started on the GeoJSON that holds a column named like an index
InitPreloaded == \E files \in PreloadedSourceFiles : Started("app", files)

SpecPreloaded == InitPreloaded /\ [][Next]_vars

SpecLocal == InitLocal /\ [][Next]_vars

-----------------------------------------------------------------------------
(* Vocabulary of the properties *)

GenerationRoutes == {"/generate_index", "/generate_residential_index"}

\* the step handles a generation request in a logged-in session, so that the
\* route's handler runs on it
GenerationHandled == session.logged_in /\ req'.route \in GenerationRoutes
ActivityHandled == session.logged_in /\ req'.route = "/generate_index"

\* the tables the route needs are loaded
RequiredLoaded(route) ==
    global_gdf.loaded /\ (route = "/generate_index" => parquet_df.loaded)

\* the column a successful generation has just attached: the last one
LastCol(df) == df.cols[Len(df.cols)]

\* the source table of a route and the z-score column of a variable in it
SourceColumn(route, v) == IF route = "/generate_index" THEN ZScoreD(v) ELSE ZScoreO(v)
SourceTable(route) == IF route = "/generate_index" THEN parquet_df ELSE global_gdf

\* the variable is in the catalog and its z-score column is in the route's source
Resolvable(route, v) ==
    /\ v \in valid_index_variables_for_selection
    /\ SourceColumn(route, v) \in Columns(SourceTable(route))

ValidInput(r) == r.name \notin BadNames /\ r.variables.val # <<>>

-----------------------------------------------------------------------------
(* C1: in every state (the start, and the state after every request, be it *)
(* answered with a document or with an error) the Index Registry holds     *)
(* exactly the names of the generated columns (the columns named *_ACT or  *)
(* *_RES) that are in the Base Geo Table.                                  *)
C1_RegistryInSync ==
    generated_index_columns =
        {c \in Columns(global_gdf) : c.sfx \in {"_ACT", "_RES"}}

\* a column has been generated and then regenerated (dropped and attached
\* again) and another request has ended in an error since
C1_Witness ==
    /\ ngen = 2
    /\ Cardinality(generated_index_columns) = 1
    /\ req.route \in GenerationRoutes
    /\ resp.status = 400

-----------------------------------------------------------------------------
(* C2: a generation request that repeats the one before it (same route,    *)
(* same sanitized name, same variables, both answered with a document)     *)
(* leaves the Base Geo Table, with its one column of that name, and the    *)
(* Index Registry as the first request left them.                          *)
C2_RegenerationIdempotent ==
    [][ ( /\ GenerationHandled
          /\ req.route = req'.route
          /\ resp.status = 200 /\ resp'.status = 200
          /\ req'.variables = req.variables
          /\ CleanBaseName(Strip(req'.name.val)) = CleanBaseName(Strip(req.name.val)) )
        => ( /\ global_gdf' = global_gdf
             /\ generated_index_columns' = generated_index_columns ) ]_vars

-----------------------------------------------------------------------------
(* C3: the table stored by an activity-index request has as many rows as   *)
(* the Base Geo Table had before the request.                              *)
C3_MergeKeepsRowCount ==
    [][ ActivityHandled => Len(global_gdf'.rows) = Len(global_gdf.rows) ]_vars

-----------------------------------------------------------------------------
(* C4: an activity-index request never returns a document whose row count  *)
(* differs from the Base Geo Table's before the request, and never stores  *)
(* such a table: a merge that changes the row count is answered with 500   *)
(* and leaves the shared table as it was.                                  *)
C4_ChangedRowCountAborts ==
    [][ ActivityHandled =>
          /\ (resp'.body = "geojson" => Len(resp'.doc.rows) = Len(global_gdf.rows))
          /\ (Len(global_gdf'.rows) # Len(global_gdf.rows) => resp'.status = 500)
          /\ (resp'.status = 500 => global_gdf'.rows = global_gdf.rows) ]_vars

-----------------------------------------------------------------------------
(* C5: a successful activity-index request keeps every row of the Base Geo *)
(* Table, in its place and with the values of all its other columns, and a *)
(* row whose key has no Visitation Table row that passes the weight filter *)
(* holds null in the new column.                                           *)
NoContributingRow(key) ==
    \A j \in 1..Len(parquet_df.rows) :
        parquet_df.rows[j][ORIGIN_TRACT] = key
            => \/ IsNull(parquet_df.rows[j][PERC_VISIT])
               \/ parquet_df.rows[j][PERC_VISIT] = Num(0, 1)

C5_LeftJoin ==
    [][ (ActivityHandled /\ resp'.status = 200) =>
          LET col == LastCol(global_gdf')
          IN  /\ Len(global_gdf'.rows) = Len(global_gdf.rows)
              /\ \A i \in 1..Len(global_gdf.rows) :
                    /\ \A c \in Columns(global_gdf) \ {col} :
                          global_gdf'.rows[i][c] = global_gdf.rows[i][c]
                    /\ NoContributingRow(global_gdf.rows[i][ORIGIN_TRACT])
                          => IsNull(global_gdf'.rows[i][col]) ]_vars

\* an activity index has been generated that is null for a tract without
\* contributing visits and holds a number for another tract
C5_Witness ==
    /\ req.route = "/generate_index" /\ resp.status = 200
    /\ \E i, j \in 1..Len(global_gdf.rows) :
          /\ NoContributingRow(global_gdf.rows[i][ORIGIN_TRACT])
          /\ IsNull(global_gdf.rows[i][LastCol(global_gdf)])
          /\ IsNum(global_gdf.rows[j][LastCol(global_gdf)])

-----------------------------------------------------------------------------
(* C6: with the tables of the route loaded, a generation request whose     *)
(* name is missing, empty, blank or cleaned to nothing, or whose variable  *)
(* list is missing or empty, is answered with 400 and leaves the Base Geo  *)
(* Table and the Index Registry as they were.                              *)
C6_InvalidInputRejected ==
    [][ ( /\ GenerationHandled
          /\ RequiredLoaded(req'.route)
          /\ ~ValidInput(req') )
        => ( /\ resp'.status = 400
             /\ global_gdf' = global_gdf
             /\ generated_index_columns' = generated_index_columns ) ]_vars

\* an invalid request has been answered while a generated column existed
C6_Witness ==
    /\ req.route \in GenerationRoutes
    /\ req.name \in BadNames \ {Missing}
    /\ resp.status = 400
    /\ generated_index_columns # {}

-----------------------------------------------------------------------------
(* C7: with the tables of the route loaded, a valid generation request     *)
(* none of whose variables resolves (each is unknown or has no z-score     *)
(* column in the route's source) is answered with 400 and leaves the Base  *)
(* Geo Table and the Index Registry as they were; and a request answered   *)
(* with a document had at least one variable that resolves.                *)
NoneResolves(r) ==
    \A k \in 1..Len(r.variables.val) : ~Resolvable(r.route, r.variables.val[k])

C7_NoValidVariables ==
    [][ ( /\ GenerationHandled
          /\ RequiredLoaded(req'.route)
          /\ ValidInput(req') )
        => /\ NoneResolves(req') =>
                ( /\ resp'.status = 400
                  /\ global_gdf' = global_gdf
                  /\ generated_index_columns' = generated_index_columns )
           /\ resp'.status = 200 => ~NoneResolves(req') ]_vars

\* a request for a known variable without a column and one for an unknown
\* variable have been refused while a generated column existed
C7_Witness ==
    /\ req.route \in GenerationRoutes
    /\ req.variables.val \in {<<"PNPL">>, <<"bogus">>}
    /\ ValidInput(req)
    /\ resp.status = 400
    /\ generated_index_columns # {}

-----------------------------------------------------------------------------
(* C8: with the tables of the route loaded, a valid generation request     *)
(* with at least one variable that resolves and at least one that does not *)
(* is answered with the updated document.                                  *)
SomeResolves(r) ==
    \E k \in 1..Len(r.variables.val) : Resolvable(r.route, r.variables.val[k])
SomeRejected(r) ==
    \E k \in 1..Len(r.variables.val) : ~Resolvable(r.route, r.variables.val[k])

C8_PartialSuccessProceeds ==
    [][ ( /\ GenerationHandled
          /\ RequiredLoaded(req'.route)
          /\ ValidInput(req')
          /\ SomeResolves(req') /\ SomeRejected(req') )
        => ( /\ resp'.status = 200
             /\ LastCol(global_gdf') \in resp'.doc.cols ) ]_vars

-----------------------------------------------------------------------------
(* C9: for the variable list of a generation request that reaches the      *)
(* resolution loop, every requested name is in exactly one of the resolved *)
(* list and the rejected list.                                             *)
ResolvedNames(r) ==
    IF r.route = "/generate_index"
    THEN LET res == ResolveActivity(r.variables.val, NothingResolved)
         IN  {v \in SeqToSet(r.variables.val) :
                 ZScoreD(v) \in SeqToSet(res.required_zscore_d_cols_for_request)}
    ELSE LET res == ResolveResidential(r.variables.val,
                        SeqToSet(available_geojson_columns), NothingResolvedResidential)
         IN  {v \in SeqToSet(r.variables.val) :
                 ZScoreO(v) \in SeqToSet(res.required_zscore_o_cols)}

RejectedNames(r) ==
    IF r.route = "/generate_index"
    THEN SeqToSet(ResolveActivity(r.variables.val, NothingResolved).invalid_vars_received)
    ELSE SeqToSet(ResolveResidential(r.variables.val,
                     SeqToSet(available_geojson_columns),
                     NothingResolvedResidential).invalid_vars_for_residential)

C9_ResolutionPartitions ==
    ( /\ req.route \in GenerationRoutes
      /\ resp.status \in {200, 400, 500}
      /\ ValidInput(req) )
    => /\ ResolvedNames(req) \cup RejectedNames(req) = SeqToSet(req.variables.val)
       /\ ResolvedNames(req) \cap RejectedNames(req) = {}

-----------------------------------------------------------------------------
(* C10: after a successful activity-index request, a tract with            *)
(* contributing visits (weight neither null nor zero) that all hold a      *)
(* z-score for every selected variable has the index                       *)
(*   (sum over those visits of the sum over the selected variables of      *)
(*    z-score times weight) / (number of selected variables) * 100,        *)
(* the selected variables being the requested names of the catalog.        *)
SelectedVariables(r) ==
    SelectSeqBy(r.variables.val, valid_index_variables_for_selection)

RECURSIVE SumOverVariables(_, _)
SumOverVariables(row, vs) ==
    IF vs = <<>> THEN Num(0, 1)
    ELSE Add(Mul(row[ZScoreD(Head(vs))], row[PERC_VISIT]),
             SumOverVariables(row, Tail(vs)))

RECURSIVE SumOverVisits(_, _, _)
SumOverVisits(rows, key, vs) ==
    IF rows = <<>> THEN Num(0, 1)
    ELSE IF /\ Head(rows)[ORIGIN_TRACT] = key
            /\ ~IsNull(Head(rows)[PERC_VISIT])
            /\ Head(rows)[PERC_VISIT] # Num(0, 1)
         THEN Add(SumOverVariables(Head(rows), vs), SumOverVisits(Tail(rows), key, vs))
         ELSE SumOverVisits(Tail(rows), key, vs)

ExpectedActivityIndex(key, vs) ==
    Mul(DivInt(SumOverVisits(parquet_df.rows, key, vs), Len(vs)), Num(100, 1))

\* every contributing visit of the tract holds a z-score for every variable
FullyScored(key, vs) ==
    \A j \in 1..Len(parquet_df.rows) :
        ( /\ parquet_df.rows[j][ORIGIN_TRACT] = key
          /\ ~IsNull(parquet_df.rows[j][PERC_VISIT])
          /\ parquet_df.rows[j][PERC_VISIT] # Num(0, 1) )
        => \A k \in 1..Len(vs) : ~IsNull(parquet_df.rows[j][ZScoreD(vs[k])])

C10_WeightedSumFormula ==
    [][ (ActivityHandled /\ resp'.status = 200) =>
          LET col == LastCol(global_gdf')
              vs  == SelectedVariables(req')
          IN  \A i \in 1..Len(global_gdf'.rows) :
                LET key == global_gdf'.rows[i][ORIGIN_TRACT]
                IN  (~NoContributingRow(key) /\ FullyScored(key, vs))
                      => global_gdf'.rows[i][col] = ExpectedActivityIndex(key, vs) ]_vars

\* one visit of weight 2.0, one selected variable with z-score 1.5: 300.0
C10_Witness ==
    /\ req.route = "/generate_index" /\ resp.status = 200
    /\ req.variables.val = <<"OZONE">>
    /\ Len(parquet_df.rows) = 1
    /\ parquet_df.rows[1][PERC_VISIT] = Num(2, 1)
    /\ parquet_df.rows[1][ZScoreD("OZONE")] = Num(3, 2)
    /\ \E i \in 1..Len(global_gdf.rows) :
          global_gdf.rows[i][LastCol(global_gdf)] = Num(300, 1)

-----------------------------------------------------------------------------
(* C11: visits whose weight is null or zero contribute nothing to the      *)
(* activity index: a successful activity-index request leaves the same     *)
(* table as it would with every such visit removed from the Visitation     *)
(* Table, and as it would with two more such visits added to it.           *)
Weightless(row) == IsNull(row[PERC_VISIT]) \/ row[PERC_VISIT] = Num(0, 1)

WithoutWeightless(pq) ==
    LET Weighted(row) == ~Weightless(row)
    IN  [pq EXCEPT !.rows = SelectSeq(@, Weighted)]

WithMoreWeightless(pq) ==
    [pq EXCEPT !.rows = @ \o << [@[1] EXCEPT ![PERC_VISIT] = Num(0, 1)],
                                [@[Len(@)] EXCEPT ![PERC_VISIT] = NULL] >>]

\* the activity handler of the running program
ActivityOutcome(S, r) ==
    IF variant = "app" THEN generate_activity_index(S, r) ELSE generate_index(S, r)

C11_WeightlessVisitsIgnored ==
    [][ (ActivityHandled /\ resp'.status = 200) =>
          /\ global_gdf' =
                ActivityOutcome([CurrentState EXCEPT !.pq = WithoutWeightless(@)],
                                req').state.gdf
          /\ global_gdf' =
                ActivityOutcome([CurrentState EXCEPT !.pq = WithMoreWeightless(@)],
                                req').state.gdf ]_vars

\* an index has been generated from a table in which a tract has only
\* visits without weight and another tract has a visit with weight
C11_Witness ==
    /\ req.route = "/generate_index" /\ resp.status = 200
    /\ \E i, j \in 1..Len(parquet_df.rows) :
          /\ Weightless(parquet_df.rows[i])
          /\ ~Weightless(parquet_df.rows[j])
          /\ \A k \in 1..Len(parquet_df.rows) :
                parquet_df.rows[k][ORIGIN_TRACT] = parquet_df.rows[i][ORIGIN_TRACT]
                    => Weightless(parquet_df.rows[k])
          /\ \E g \in 1..Len(global_gdf.rows) :
                /\ global_gdf.rows[g][ORIGIN_TRACT] = parquet_df.rows[i][ORIGIN_TRACT]
                /\ IsNull(global_gdf.rows[g][LastCol(global_gdf)])

-----------------------------------------------------------------------------
(* C12: after a successful residential-index request every tract holds, in *)
(* the new column, 100 times the sum of its non-null selected residential  *)
(* z-scores divided by their number, and null when it has none; the        *)
(* selected columns are those of the requested variables that resolve.     *)
ResidentialHandled ==
    session.logged_in /\ req'.route = "/generate_residential_index"

RECURSIVE ScoresOf(_, _, _)
\* the non-null z-scores of a tract for the requested names that resolve
ScoresOf(row, names, gdf) ==
    IF names = <<>> THEN <<>>
    ELSE LET v == Head(names)
             rest == ScoresOf(row, Tail(names), gdf)
         IN  IF /\ v \in valid_index_variables_for_selection
                /\ ZScoreO(v) \in Columns(gdf)
                /\ ~IsNull(row[ZScoreO(v)])
             THEN <<row[ZScoreO(v)]>> \o rest
             ELSE rest

RECURSIVE Total(_)
Total(scores) ==
    IF scores = <<>> THEN Num(0, 1) ELSE Add(Head(scores), Total(Tail(scores)))

ExpectedResidentialIndex(row, names, gdf) ==
    LET scores == ScoresOf(row, names, gdf)
    IN  IF scores = <<>> THEN NULL
        ELSE Mul(Num(100, 1), DivInt(Total(scores), Len(scores)))

C12_ResidentialMean ==
    [][ (ResidentialHandled /\ resp'.status = 200) =>
          /\ Len(global_gdf'.rows) = Len(global_gdf.rows)
          /\ \A i \in 1..Len(global_gdf.rows) :
                global_gdf'.rows[i][LastCol(global_gdf')] =
                    ExpectedResidentialIndex(global_gdf.rows[i], req'.variables.val,
                                             global_gdf) ]_vars

\* two columns selected; a tract with the values 0.2 and null holds 20.0 and
\* a tract with two nulls holds null
C12_Witness ==
    /\ req.route = "/generate_residential_index" /\ resp.status = 200
    /\ req.variables.val = <<"OZONE", "PM25">>
    /\ \E i \in 1..Len(global_gdf.rows) :
          /\ global_gdf.rows[i][ZScoreO("OZONE")] = Num(1, 5)
          /\ IsNull(global_gdf.rows[i][ZScoreO("PM25")])
          /\ global_gdf.rows[i][LastCol(global_gdf)] = Num(20, 1)

\* a tract whose selected columns are all null holds null
C12_WitnessAllNull ==
    /\ req.route = "/generate_residential_index" /\ resp.status = 200
    /\ req.variables.val = <<"OZONE", "PM25">>
    /\ \E i \in 1..Len(global_gdf.rows) :
          /\ IsNull(global_gdf.rows[i][ZScoreO("OZONE")])
          /\ IsNull(global_gdf.rows[i][ZScoreO("PM25")])
          /\ IsNull(global_gdf.rows[i][LastCol(global_gdf)])

-----------------------------------------------------------------------------
(* C13: when no visit has a weight that is neither null nor zero, so that  *)
(* the aggregation query yields no group, a valid activity-index request   *)
(* whose catalog variables all have their column still succeeds: the new   *)
(* column is attached and registered and is null for every tract.          *)
NoWeightedVisit ==
    /\ PERC_VISIT \in Columns(parquet_df)
    /\ \A j \in 1..Len(parquet_df.rows) : Weightless(parquet_df.rows[j])

AllCatalogNamesHaveColumn(r) ==
    \A k \in 1..Len(r.variables.val) :
        r.variables.val[k] \in valid_index_variables_for_selection
            => Resolvable(r.route, r.variables.val[k])

C13_ZeroGroupsAllNull ==
    [][ ( /\ ActivityHandled
          /\ RequiredLoaded(req'.route)
          /\ ValidInput(req')
          /\ SomeResolves(req') /\ AllCatalogNamesHaveColumn(req')
          /\ NoWeightedVisit )
        => LET col == LastCol(global_gdf')
           IN  /\ resp'.status = 200
               /\ col.sfx = "_ACT"
               /\ col \in generated_index_columns'
               /\ col \in resp'.doc.cols
               /\ Len(global_gdf'.rows) = Len(global_gdf.rows)
               /\ \A i \in 1..Len(global_gdf'.rows) :
                     /\ IsNull(global_gdf'.rows[i][col])
                     /\ IsNull(resp'.doc.rows[i][col]) ]_vars

\* an index has been generated from a Visitation Table without a weighted
\* visit
C13_Witness ==
    /\ req.route = "/generate_index" /\ resp.status = 200
    /\ NoWeightedVisit
    /\ Len(parquet_df.rows) > 0
    /\ LastCol(global_gdf) \in generated_index_columns
    /\ \A i \in 1..Len(global_gdf.rows) :
          IsNull(global_gdf.rows[i][LastCol(global_gdf)])

-----------------------------------------------------------------------------
(* C14: the column a successful generation request attaches is named by    *)
(* the typed name, trimmed, with each run of whitespace replaced by one    *)
(* underscore and every character that is neither alphanumeric nor an      *)
(* underscore removed, followed by _ACT (activity) or _RES (residential);  *)
(* the name holds only alphanumeric characters and underscores.            *)
Alphanumeric == {"a", "b", "M", "y", "I", "n", "d", "e", "x", "1"}

IsBlank(ch) == ch \in {" ", "\t"}

Trimmed(s) ==
    LET inked == {i \in 1..Len(s) : ~IsBlank(s[i])}
    IN  IF inked = {} THEN <<>>
        ELSE SubSeq(s, CHOOSE i \in inked : \A j \in inked : i <= j,
                       CHOOSE i \in inked : \A j \in inked : i >= j)

\* per character of the trimmed name: what it becomes, <<>> when it goes
RECURSIVE Concat(_)
Concat(parts) == IF parts = <<>> THEN <<>> ELSE Head(parts) \o Concat(Tail(parts))

SanitizedName(s) ==
    LET t == Trimmed(s)
    IN  Concat([i \in 1..Len(t) |->
                  IF IsBlank(t[i])
                  THEN (IF i > 1 /\ IsBlank(t[i - 1]) THEN <<>> ELSE <<"_">>)
                  ELSE IF t[i] \in Alphanumeric \cup {"_"} THEN <<t[i]>>
                  ELSE <<>>])

C14_NameSanitized ==
    [][ (GenerationHandled /\ resp'.status = 200) =>
          LET col == LastCol(global_gdf')
          IN  /\ col.base = SanitizedName(req'.name.val)
              /\ col.sfx = (IF req'.route = "/generate_index" THEN "_ACT" ELSE "_RES")
              /\ \A k \in 1..Len(col.base) : col.base[k] \in Alphanumeric \cup {"_"}
              /\ col \in generated_index_columns' ]_vars

\* "  My Index!! " has become the activity column My_Index_ACT
C14_Witness ==
    /\ req.route = "/generate_index" /\ resp.status = 200
    /\ req.name.val = <<" ", " ", "M", "y", " ", "I", "n", "d", "e", "x", "!", "!", " ">>
    /\ LastCol(global_gdf) = Col(<<"M", "y", "_", "I", "n", "d", "e", "x">>, "_ACT")
    /\ LastCol(global_gdf) \in resp.doc.cols

\* a name with a run of two whitespace characters has become My_Index_RES
C14_WitnessRun ==
    /\ req.route = "/generate_residential_index" /\ resp.status = 200
    /\ req.name.val = <<"M", "y", "\t", " ", "I", "n", "d", "e", "x">>
    /\ LastCol(global_gdf) = Col(<<"M", "y", "_", "I", "n", "d", "e", "x">>, "_RES")

-----------------------------------------------------------------------------
(* C15: a request to /, /logout, /geojson, /get_index_fields,              *)
(* /generate_index or /generate_residential_index in a session without the *)
(* logged_in flag is answered by the gate (the redirect to the login form  *)
(* with the message to log in), not by the route's handler, and leaves the *)
(* Base Geo Table, the Visitation Table, the Index Registry and the        *)
(* session as they were.                                                   *)
GatedRoutes ==
    {"/", "/logout", "/geojson", "/get_index_fields",
     "/generate_index", "/generate_residential_index"}

AnsweredByGate(routes) ==
    (~session.logged_in /\ req'.route \in routes)
        => /\ resp' = Redirect("/login?next", "Please log in to access this page.")
           /\ UNCHANGED <<global_gdf, parquet_df, generated_index_columns,
                          available_geojson_columns, session>>

C15_SessionGate == [][ AnsweredByGate(GatedRoutes) ]_vars

(* C15 as the code has it: the routes /, /geojson, /get_index_fields,      *)
(* /generate_index and /generate_residential_index are gated as above;     *)
(* /logout is not: without the flag its handler answers, with its own      *)
(* redirect to the login form, and leaves the tables, the registry and the *)
(* session as they were.                                                   *)
C15_SessionGateButLogout ==
    [][ /\ AnsweredByGate(GatedRoutes \ {"/logout"})
        /\ (~session.logged_in /\ req'.route = "/logout")
              => /\ resp' = Redirect("/login", "You have been logged out.")
                 /\ UNCHANGED <<global_gdf, parquet_df, generated_index_columns,
                                available_geojson_columns, session>> ]_vars

\* after a logout, with a generated column in the table, a generation
\* request has been turned away by the gate
C15_Witness ==
    /\ ~session.logged_in
    /\ req.route = "/generate_index"
    /\ resp = Redirect("/login?next", "Please log in to access this page.")
    /\ generated_index_columns # {}

-----------------------------------------------------------------------------
(* C16: the session gets the logged_in flag only by a POST to /login whose *)
(* passcode is not empty and equals the configured secret; any other       *)
(* passcode, and every passcode when no secret is configured, gets the     *)
(* login form again and leaves the session as it was; /logout removes the  *)
(* flag and redirects to the login form; and while the flag is absent the  *)
(* gated routes answer with the redirect to the login form.                *)
PasscodeAccepted(r) == r.passcode # "" /\ <<r.passcode>> = CORRECT_PASSCODE

C16_SessionLifecycle ==
    [][ /\ (~session.logged_in /\ session'.logged_in)
              => (req'.route = "/login" /\ PasscodeAccepted(req'))
        /\ (req'.route = "/login" /\ PasscodeAccepted(req'))
              => (session'.logged_in /\ resp'.body = "redirect")
        /\ (req'.route = "/login" /\ ~PasscodeAccepted(req'))
              => (session' = session /\ resp'.body = "login.html")
        /\ req'.route = "/logout"
              => /\ ~session'.logged_in
                 /\ resp'.body = "redirect" /\ resp'.location = "/login"
        /\ (~session.logged_in /\ req'.route \in GatedRoutes \ {"/logout"})
              => (resp'.body = "redirect" /\ resp'.location = "/login?next") ]_vars

\* a session that had logged in, since a column was generated, has logged
\* out and is refused the map
C16_Witness ==
    /\ ~session.logged_in
    /\ generated_index_columns # {}
    /\ req.route = "/geojson"
    /\ resp.body = "redirect" /\ resp.location = "/login?next"

\* without a configured secret an empty passcode has got the form again
C16_WitnessUnset ==
    /\ CORRECT_PASSCODE = <<>>
    /\ req.route = "/login" /\ req.passcode = ""
    /\ resp.body = "login.html"
    /\ ~session.logged_in

-----------------------------------------------------------------------------
(* C17: in a logged-in session, while the Base Geo Table is not loaded     *)
(* /geojson, /generate_index and /generate_residential_index answer 503,   *)
(* and while the Visitation Table is not loaded /generate_index answers    *)
(* 503; a request answered with 503 changes nothing; no request makes an   *)
(* unloaded table loaded; and the Index Registry stays empty while the     *)
(* Base Geo Table is not loaded.                                           *)
DataRoutes == {"/geojson", "/generate_index", "/generate_residential_index"}

C17_WitnessNoMap ==
    /\ ~global_gdf.loaded /\ parquet_df.loaded
    /\ req.route = "/geojson"
    /\ resp.status = 503

-----------------------------------------------------------------------------
(* C18: the Visitation Table (parquet_df) is read-only after the load: no  *)
(* request to any route, in any order, changes its columns, its values or  *)
(* the types of its values, the tract-key column included.  The keys are   *)
(* strings once the load has finished, so the conversion of the keys that  *)
(* precedes the query finds nothing to convert.                            *)
C18_VisitationTableReadOnly == [][parquet_df' = parquet_df]_vars

\* an activity index has been generated from a loaded Visitation Table
C18_Witness ==
    /\ parquet_df.loaded
    /\ req.route = "/generate_index"
    /\ resp.status = 200
    /\ generated_index_columns # {}
    /\ IsStringDtype(parquet_df, ORIGIN_TRACT)
    /\ parquet_df.rows # <<>>

-----------------------------------------------------------------------------
(* C19: the tract key column of the Base Geo Table is stable.  Whatever    *)
(* activity and residential generation requests are served, every row      *)
(* keeps the key it had when the load finished, a string that is not null  *)
(* and has no surrounding blanks; the conversion of the keys that precedes *)
(* a merge changes no key.  In app.py the column is the same list after    *)
(* every step; where a merge of app_local.py copies a row, the copies      *)
(* carry the key of the row they were copied from.                         *)

\* the key column, in row order
KeysOf(df) == [i \in 1..Len(df.rows) |-> df.rows[i][ORIGIN_TRACT]]

\* a list with every run of equal neighbours counted once
RECURSIVE Collapse(_)
Collapse(seq) ==
    IF Len(seq) <= 1 THEN seq
    ELSE IF seq[1] = seq[2] THEN Collapse(Tail(seq))
    ELSE <<seq[1]>> \o Collapse(Tail(seq))

\* a string that is not null and has no surrounding blanks
TrimmedString(key) == key.t = "str" /\ key.s \in {"d", "d.0", "abc", "<NA>"}

C19_KeyColumnStable ==
    [][ global_gdf.loaded =>
          /\ global_gdf'.loaded
          /\ \A i \in 1..Len(global_gdf'.rows) : TrimmedString(KeysOf(global_gdf')[i])
          /\ Collapse(KeysOf(global_gdf')) = Collapse(KeysOf(global_gdf))
          /\ Len(global_gdf'.rows) = Len(global_gdf.rows)
                => KeysOf(global_gdf') = KeysOf(global_gdf)
          /\ variant = "app" => KeysOf(global_gdf') = KeysOf(global_gdf) ]_vars

\* two generated columns have been merged into a table whose file held the
\* keys as numbers, one of them no number at all
C19_Witness ==
    /\ global_gdf.loaded
    /\ ngen = MaxGenerated
    /\ req.route \in GenerationRoutes
    /\ resp.status = 200
    /\ Len(global_gdf.rows) >= 2
    /\ \E i \in 1..Len(global_gdf.rows) : KeysOf(global_gdf)[i] = KNAStr
    /\ \E i \in 1..Len(global_gdf.rows) : KeysOf(global_gdf)[i] = KStr(1)

-----------------------------------------------------------------------------
(* C20: the tract-key normalisation maps every representation of one       *)
(* identifier (integer, float with trailing zero, string, string with      *)
(* surrounding blanks) to one and the same trimmed string; it is           *)
(* idempotent; and it is applied in the same way to the key of the Base    *)
(* Geo Table, to the key of the Visitation Table and to the key of the     *)
(* aggregation result before the join, so that a tract present in both     *)
(* tables always finds its partner in the join.                            *)

TractNumbers == {1, 2, 3}

\* the spellings of tract n in a source file
Representations(n) == {KInt(n), KFloat(n), KStr(n), KPad(n), KStrF(n)}

AllKeys == UNION {Representations(n) : n \in TractNumbers} \cup {KBad, KNAStr, KNull}

\* the identifier a raw key spells, read off the key itself
SpellsNumber(key) == key.t \in {"int", "float"} \/ (key.t = "str" /\ key.s \in {"d", " d ", "d.0"})
SameTract(a, b) == SpellsNumber(a) /\ SpellsNumber(b) /\ a.n = b.n

\* the pairs of source files that both load
LoadablePairs ==
    { files \in SourceFiles :
        load_geojson_from_b2(files[1]).gdf.loaded /\ load_parquet_from_b2(files[2]).loaded }

\* every representation of a tract ends as the one digit string
OneStringPerTract ==
    \A n \in TractNumbers : \A key \in Representations(n) :
        NormalizeTract(key) = [t |-> "str", n |-> n, s |-> "d"]

NormalizationIdempotent ==
    \A key \in AllKeys : NormalizeTract(NormalizeTract(key)) = NormalizeTract(key)

\* a tract of the GeoJSON with a weighted visit in the Parquet file meets a
\* row of the aggregation result under its loaded key
LoadedKeysMatch ==
    \A files \in LoadablePairs :
        LET G   == load_geojson_from_b2(files[1]).gdf
            P   == load_parquet_from_b2(files[2])
            agg == IndexToMerge(DuckDBQuery(P, <<ZScoreD("OZONE")>>), Col(<<"x">>, "_ACT"), 1)
        IN  \A i \in 1..Len(files[1].rows) : \A j \in 1..Len(files[2].rows) :
              ( /\ SameTract(files[1].rows[i][ORIGIN_TRACT], files[2].rows[j][ORIGIN_TRACT])
                /\ PERC_VISIT \in Columns(P)
                /\ ~IsNull(P.rows[j][PERC_VISIT]) /\ P.rows[j][PERC_VISIT] # Num(0, 1) )
              => /\ G.rows[i][ORIGIN_TRACT] = P.rows[j][ORIGIN_TRACT]
                 /\ \E k \in 1..Len(agg.rows) :
                       agg.rows[k][ORIGIN_TRACT] = G.rows[i][ORIGIN_TRACT]

\* the keys the two tables hold are normalised
TablesNormalized ==
    /\ global_gdf.loaded =>
          \A i \in 1..Len(global_gdf.rows) :
              NormalizeTract(global_gdf.rows[i][ORIGIN_TRACT]) = global_gdf.rows[i][ORIGIN_TRACT]
    /\ parquet_df.loaded =>
          \A j \in 1..Len(parquet_df.rows) :
              NormalizeTract(parquet_df.rows[j][ORIGIN_TRACT]) = parquet_df.rows[j][ORIGIN_TRACT]

\* after a generation of an activity index, a row of the Base Geo Table
\* whose tract has a weighted, fully scored visit carries a value
JoinedWherePresent ==
    (req.route = "/generate_index" /\ resp.status = 200) =>
        LET col == LastCol(global_gdf)
            vs  == SelectedVariables(req)
        IN  \A i \in 1..Len(global_gdf.rows) :
              LET key == global_gdf.rows[i][ORIGIN_TRACT]
              IN  ( /\ ~NoContributingRow(key)
                    /\ FullyScored(key, vs)
                    /\ ~IsNull(ExpectedActivityIndex(key, vs)) )
                  => ~IsNull(global_gdf.rows[i][col])

C20_NormalizationUnifiesKeys ==
    /\ OneStringPerTract
    /\ NormalizationIdempotent
    /\ LoadedKeysMatch
    /\ TablesNormalized
    /\ JoinedWherePresent

\* the GeoJSON held tract 2 as an integer, the Parquet file as a float next
\* to a missing key, and the generated column has a value for the tract
C20_Witness ==
    /\ req.route = "/generate_index" /\ resp.status = 200
    /\ global_gdf.loaded /\ parquet_df.loaded
    /\ KeysOf(global_gdf) = <<KStr(1), KStr(2)>>
    /\ KeysOf(parquet_df) = <<KStr(2), KNAStr>>
    /\ global_gdf.rows[2][LastCol(global_gdf)] # NULL
    /\ global_gdf.rows[1][LastCol(global_gdf)] = NULL

-----------------------------------------------------------------------------
(* C21: tract identifiers that cannot be converted to a number become      *)
(* null-keyed rows that never join.  After a generation of an activity     *)
(* index, a row of the Base Geo Table whose key was not convertible has    *)
(* no value in the new column, and a key of the aggregation result that    *)
(* was not convertible meets no row of the Base Geo Table.                 *)

\* the key the conversion gives to an identifier that spells no number
NonConvertible(key) == key = NormalizeTract(KBad)

C21_NonConvertibleNeverJoins ==
    [][ (ActivityHandled /\ resp'.status = 200) =>
          \A i \in 1..Len(global_gdf'.rows) :
              NonConvertible(global_gdf'.rows[i][ORIGIN_TRACT])
                  => IsNull(global_gdf'.rows[i][LastCol(global_gdf')]) ]_vars

\* a row whose key was not convertible carries a value taken from the
\* visits whose keys were not convertible
C21_Joined ==
    /\ req.route = "/generate_index" /\ resp.status = 200
    /\ \E i \in 1..Len(global_gdf.rows) :
          /\ NonConvertible(global_gdf.rows[i][ORIGIN_TRACT])
          /\ ~IsNull(global_gdf.rows[i][LastCol(global_gdf)])

-----------------------------------------------------------------------------
(* C22: every document published by /geojson or returned by a successful   *)
(* generation request holds the tract key and the geometry, holds only     *)
(* columns that the Base Geo Table has at that moment, holds every         *)
(* generated index column registered at that moment and, when it answers   *)
(* a generation request, holds the column the request has just created.    *)

PublishingRoutes == {"/geojson", "/generate_index", "/generate_residential_index"}

\* the name of the column a generation request creates
CreatedColumn(r) ==
    Col(SanitizedName(r.name.val),
        IF r.route = "/generate_index" THEN "_ACT" ELSE "_RES")

C22_PublishedColumns ==
    [][ (session.logged_in /\ req'.route \in PublishingRoutes /\ resp'.status = 200) =>
          /\ resp'.doc.loaded
          /\ {ORIGIN_TRACT, GEOMETRY} \subseteq resp'.doc.cols
          /\ resp'.doc.cols \subseteq Columns(global_gdf')
          /\ generated_index_columns' \subseteq resp'.doc.cols
          /\ req'.route \in GenerationRoutes => CreatedColumn(req') \in resp'.doc.cols
          /\ \A i \in 1..Len(global_gdf'.rows) : \A c \in resp'.doc.cols :
                resp'.doc.rows[i][c] = global_gdf'.rows[i][c] ]_vars

\* a generation response that carries two generated columns, and a /geojson
\* document that carries them afterwards
C22_Witness ==
    /\ req.route \in GenerationRoutes /\ resp.status = 200
    /\ Cardinality(generated_index_columns) = 2
    /\ generated_index_columns \subseteq resp.doc.cols
    /\ CreatedColumn(req) \in resp.doc.cols

C22_WitnessGeojson ==
    /\ req.route = "/geojson" /\ resp.status = 200
    /\ Cardinality(generated_index_columns) = 2
    /\ generated_index_columns \subseteq resp.doc.cols

-----------------------------------------------------------------------------
(* C23: a generated index column, once created, stays in the Base Geo      *)
(* Table and in the Index Registry with the values it has, through every   *)
(* later request, until a request regenerates the column of that name.     *)
(* A generation under another column name and a /geojson request never     *)
(* remove it and never alter it.                                           *)

\* the cells of a column, in row order
ColumnValues(df, c) == [i \in 1..Len(df.rows) |-> df.rows[i][c]]

\* the step is a generation request for column c
Regenerates(c) == GenerationHandled /\ CreatedColumn(req') = c

C23_GeneratedColumnPersists ==
    [][ \A c \in generated_index_columns :
          ~Regenerates(c) =>
              /\ c \in generated_index_columns'
              /\ c \in Columns(global_gdf')
              /\ ColumnValues(global_gdf', c) = ColumnValues(global_gdf, c) ]_vars

\* a second column has been generated next to an earlier one, which holds
\* a value
C23_Witness ==
    /\ req.route \in GenerationRoutes /\ resp.status = 200
    /\ \E c \in generated_index_columns :
          /\ c # CreatedColumn(req)
          /\ c \in Columns(global_gdf)
          /\ \E i \in 1..Len(global_gdf.rows) : ~IsNull(global_gdf.rows[i][c])

-----------------------------------------------------------------------------
(* C24: no generated index column ever holds positive or negative          *)
(* infinity, on either route.  An infinite value that arrives in the       *)
(* inputs or arises in the computation, the narrowing to a 32-bit float    *)
(* included, is turned into null; it is neither stored in the Base Geo     *)
(* Table nor published.                                                    *)

GeneratedColumns(df) == {c \in Columns(df) : c.sfx \in {"_ACT", "_RES"}}

C24_NoInfinityStored ==
    /\ global_gdf.loaded =>
          \A c \in GeneratedColumns(global_gdf) : \A i \in 1..Len(global_gdf.rows) :
              ~IsInf(global_gdf.rows[i][c])
    /\ resp.doc.loaded =>
          \A c \in {x \in resp.doc.cols : x.sfx \in {"_ACT", "_RES"}} :
              \A i \in 1..Len(resp.doc.rows) : ~IsInf(resp.doc.rows[i][c])

\* an activity index whose narrowing overflowed, stored and published
C24_InfinityFromNarrowing ==
    /\ req.route = "/generate_index" /\ resp.status = 200
    /\ \E i \in 1..Len(global_gdf.rows) :
          /\ global_gdf.rows[i][LastCol(global_gdf)] = PINF
          /\ resp.doc.rows[i][LastCol(global_gdf)] = PINF

\* a residential index that carries an infinity of the GeoJSON
C24_InfinityResidential ==
    /\ req.route = "/generate_residential_index" /\ resp.status = 200
    /\ \E i \in 1..Len(global_gdf.rows) :
          /\ global_gdf.rows[i][ZScoreO("OZONE")] = PINF
          /\ global_gdf.rows[i][LastCol(global_gdf)] = PINF

-----------------------------------------------------------------------------
(* C28: after the load and after every generation request the tracked      *)
(* list available_geojson_columns holds exactly the names of the columns   *)
(* that the Base Geo Table (global_gdf) has, each once: a drop of a column *)
(* removes its name from the list and an attach appends it.                *)
C28_AvailableMatchesTable ==
    /\ SeqToSet(available_geojson_columns) = Columns(global_gdf)
    /\ Len(available_geojson_columns) = Cardinality(SeqToSet(available_geojson_columns))
    /\ Len(global_gdf.cols) = Len(available_geojson_columns)

\* a column has been generated a second time under its name: dropped,
\* attached again, and listed once
C28_Witness ==
    /\ ngen = MaxGenerated
    /\ req.route \in GenerationRoutes /\ resp.status = 200
    /\ generated_index_columns = {CreatedColumn(req)}
    /\ available_geojson_columns = global_gdf.cols
    /\ CreatedColumn(req) \in SeqToSet(available_geojson_columns)

-----------------------------------------------------------------------------
(* C29: in the activity weighted sum, a visit with a weight that is        *)
(* neither null nor zero and with a null z-score for one or more of the    *)
(* selected variables contributes the products of its other selected       *)
(* variables to the sum of its tract; only the term of the null variable   *)
(* is missing.                                                             *)

\* the products of a visit over the selected variables that have a z-score
RECURSIVE SumOfPresentTerms(_, _)
SumOfPresentTerms(row, vs) ==
    IF vs = <<>> THEN Num(0, 1)
    ELSE IF IsNull(row[ZScoreD(Head(vs))]) THEN SumOfPresentTerms(row, Tail(vs))
    ELSE Add(Mul(row[ZScoreD(Head(vs))], row[PERC_VISIT]),
             SumOfPresentTerms(row, Tail(vs)))

\* the sum of a tract over its weighted visits, null terms left out
RECURSIVE SumSkippingNullTerms(_, _, _)
SumSkippingNullTerms(rows, key, vs) ==
    IF rows = <<>> THEN Num(0, 1)
    ELSE IF /\ Head(rows)[ORIGIN_TRACT] = key
            /\ ~IsNull(Head(rows)[PERC_VISIT])
            /\ Head(rows)[PERC_VISIT] # Num(0, 1)
         THEN Add(SumOfPresentTerms(Head(rows), vs),
                  SumSkippingNullTerms(Tail(rows), key, vs))
         ELSE SumSkippingNullTerms(Tail(rows), key, vs)

\* the tract has a weighted visit with a z-score for a selected variable
HasPresentTerm(key, vs) ==
    \E j \in 1..Len(parquet_df.rows) :
        /\ parquet_df.rows[j][ORIGIN_TRACT] = key
        /\ ~IsNull(parquet_df.rows[j][PERC_VISIT])
        /\ parquet_df.rows[j][PERC_VISIT] # Num(0, 1)
        /\ \E k \in 1..Len(vs) : ~IsNull(parquet_df.rows[j][ZScoreD(vs[k])])

C29_NullTermOnlyMissing ==
    [][ (ActivityHandled /\ resp'.status = 200) =>
          LET col == LastCol(global_gdf')
              vs  == SelectedVariables(req')
          IN  \A i \in 1..Len(global_gdf'.rows) :
                LET key == global_gdf'.rows[i][ORIGIN_TRACT]
                IN  HasPresentTerm(key, vs)
                      => global_gdf'.rows[i][col] =
                           Times100(DivInt(SumSkippingNullTerms(parquet_df.rows, key, vs),
                                           Len(vs))) ]_vars

\* two variables selected, tract 1 visited twice, the second visit without
\* a PM25 score: the tract's value is that of the first visit alone
C29_WholeVisitDropped ==
    /\ req.route = "/generate_index" /\ resp.status = 200
    /\ req.variables.val = <<"OZONE", "PM25">>
    /\ Len(parquet_df.rows) = 2
    /\ parquet_df.rows[2][PERC_VISIT] = Num(1, 2)
    /\ parquet_df.rows[2][ZScoreD("OZONE")] = Num(1, 1)
    /\ IsNull(parquet_df.rows[2][ZScoreD("PM25")])
    /\ KeysOf(parquet_df) = <<KStr(1), KStr(1)>>
    /\ \E i \in 1..Len(global_gdf.rows) :
          global_gdf.rows[i][LastCol(global_gdf)] = Num(50, 1)

-----------------------------------------------------------------------------
(* C30: an activity index and a residential index generated under the same *)
(* user-supplied name are two columns, name_ACT and name_RES, that exist   *)
(* side by side, each with its registry entry; regenerating one of them    *)
(* never drops or changes the other; and a generation request never drops  *)
(* or overwrites a column that the Base Geo Table had when it was loaded.  *)

\* the columns of the table that no request has generated
LoadTimeColumns == Columns(global_gdf) \ generated_index_columns

\* column c is in the table after the step, with the cells it had
KeptAsItWas(c) ==
    /\ c \in Columns(global_gdf')
    /\ ColumnValues(global_gdf', c) = ColumnValues(global_gdf, c)

C30_OtherColumnsUntouched ==
    [][ GenerationHandled =>
          /\ \A c \in LoadTimeColumns :
                KeptAsItWas(c) /\ c \notin generated_index_columns'
          /\ \A c \in generated_index_columns :
                (c.base = CreatedColumn(req').base /\ c.sfx # CreatedColumn(req').sfx)
                    => KeptAsItWas(c) /\ c \in generated_index_columns'
          /\ resp'.status = 200 =>
                /\ CreatedColumn(req') \in generated_index_columns'
                /\ CreatedColumn(req') \in Columns(global_gdf') ]_vars

\* both indices of the name "a" exist side by side and are registered
C30_SameNameCoexist ==
    /\ generated_index_columns = {Col(<<"a">>, "_ACT"), Col(<<"a">>, "_RES")}
    /\ generated_index_columns \subseteq Columns(global_gdf)
    /\ req.route \in GenerationRoutes /\ resp.status = 200

\* the column a_ACT of the GeoJSON has been replaced by a generated one
C30_LoadedColumnOverwritten ==
    /\ req.route = "/generate_index" /\ resp.status = 200
    /\ CreatedColumn(req) = Col(<<"a">>, "_ACT")
    /\ ngen = 1
    /\ ColumnValues(global_gdf, Col(<<"a">>, "_ACT")) # <<Num(7, 1), Num(8, 1)>>

-----------------------------------------------------------------------------
(* C25: within one successful generation request the steps come in this    *)
(* order: aggregate, drop the old column of the name (and unregister it),  *)
(* attach the new column, register it, take the snapshot for the response. *)
(* The old column is never dropped before the aggregation has completed:   *)
(* a failure of the aggregation leaves the previous column and its         *)
(* registry entry in place.  What a request leaves behind when a later     *)
(* step fails shows the order of the steps before it.                      *)

AggregationErrors == {"Data query failed during aggregation.", "Calculation failed: mean"}
AttachErrors == {"Failed to merge index results", "Calculation failed: assignment"}
SnapshotErrors == {"Failed to format final data", "Failed to format final data for residential"}

\* the number of times a name occurs in a list
Occurrences(seq, x) == Cardinality({i \in 1..Len(seq) : seq[i] = x})

C25_StepOrder ==
    [][ GenerationHandled =>
          LET c == CreatedColumn(req')
          IN  /\ resp'.error \in AggregationErrors =>
                    UNCHANGED <<global_gdf, generated_index_columns,
                                available_geojson_columns>>
              /\ resp'.error \in AttachErrors =>
                    /\ c \notin Columns(global_gdf')
                    /\ c \notin generated_index_columns'
                    /\ global_gdf' = (IF c \in Columns(global_gdf)
                                      THEN DropColumn(global_gdf, c) ELSE global_gdf)
              /\ resp'.error \in SnapshotErrors =>
                    /\ Occurrences(global_gdf'.cols, c) = 1
                    /\ c \in generated_index_columns'
              /\ resp'.status = 200 =>
                    /\ Occurrences(global_gdf'.cols, c) = 1
                    /\ c \in generated_index_columns'
                    /\ c \in resp'.doc.cols
                    /\ \A i \in 1..Len(global_gdf'.rows) :
                          resp'.doc.rows[i][c] = global_gdf'.rows[i][c] ]_vars

\* the aggregation of a regeneration has failed; the column generated
\* before is in the table and in the registry
C25_Witness ==
    /\ req.route \in GenerationRoutes
    /\ resp.error \in AggregationErrors
    /\ CreatedColumn(req) \in generated_index_columns
    /\ CreatedColumn(req) \in Columns(global_gdf)

-----------------------------------------------------------------------------
(* C27: a generation request answered with an error status (400, 500 or    *)
(* 503), a failure during the merge or during the final snapshot           *)
(* included, leaves the columns of the Base Geo Table and the Index        *)
(* Registry exactly as they were before the request; a failed regeneration *)
(* under an existing name does not lose the column generated before.       *)
C27_ErrorLeavesStateAlone ==
    [][ (GenerationHandled /\ resp'.status \in {400, 500, 503}) =>
          /\ global_gdf'.cols = global_gdf.cols
          /\ generated_index_columns' = generated_index_columns ]_vars

\* the attach of a regeneration has failed and the column generated before
\* is gone
C27_ColumnLost ==
    /\ req.route \in GenerationRoutes
    /\ resp.error \in AttachErrors
    /\ ngen = MaxGenerated
    /\ generated_index_columns = {}

\* the snapshot has failed and the new column is in the table and registered
C27_ColumnKeptAfterError ==
    /\ req.route \in GenerationRoutes
    /\ resp.error \in SnapshotErrors
    /\ CreatedColumn(req) \in generated_index_columns

-----------------------------------------------------------------------------
(* C26: the read-modify-write cycle of an index generation behaves as a    *)
(* critical section over the Base Geo Table.  For every interleaving of    *)
(* concurrently handled requests, two generation requests under different  *)
(* names both end with their columns in the table and registered (no lost  *)
(* update); a /geojson snapshot never sees the table between the drop of a *)
(* column and its re-attach; and no registered name is without its column. *)

\* the columns of the requests that a thread has answered with 200
AnsweredColumns == {threads[t].index_col_name : t \in {u \in Threads : threads[u].status = 200}}

\* no request answered with 200 has lost its column, and no registered name
\* is without its column
NoLostUpdate ==
    /\ generated_index_columns' \subseteq Columns(global_gdf')
    /\ \A t \in Threads :
          (threads'[t].pc = "idle" /\ threads'[t].status = 200)
              => /\ threads'[t].index_col_name \in Columns(global_gdf')
                 /\ threads'[t].index_col_name \in generated_index_columns'

\* a /geojson request publishes every column that a request has answered
\* with 200
SnapshotComplete ==
    (session.logged_in /\ threads' = threads /\ req'.route = "/geojson"
       /\ resp'.status = 200)
        => AnsweredColumns \subseteq resp'.doc.cols

C26_CriticalSection == [][NoLostUpdate /\ SnapshotComplete]_vars

\* both threads have answered 200, and the column of thread 1 is registered
\* but no longer in the table
C26_LostUpdate ==
    /\ \A t \in Threads : threads[t].pc = "idle" /\ threads[t].status = 200
    /\ threads[1].index_col_name \in generated_index_columns
    /\ threads[1].index_col_name \notin Columns(global_gdf)
    /\ threads[2].index_col_name \in Columns(global_gdf)
====
